---------------------------- MODULE Spec2Model ----------------------------
(***************************************************************************)
(* A model of the CGIAR climate change synthesis pipeline:                 *)
(*   - src/src/util.py: the string normalizers (normalize_doi, ...)        *)
(*   - src/src/merge_source_csvs.py: merge, deduplicate, exclude, filter,  *)
(*     enrich and partition the harvested rows.                            *)
(*                                                                         *)
(* A Python str is a sequence of characters; a character is a TLA+ string  *)
(* of length one (or a named code point such as ZWSP).  A missing value    *)
(* (pd.NA, None, an empty CSV cell once read) is the value NA.             *)
(***************************************************************************)
EXTENDS Integers, Sequences, FiniteSets, TLC

VARIABLES
    pc,              \* position of the running script
    arg,             \* argument handed to the function under test
    res,             \* result of the first application
    res2,            \* result of applying the function to its own result
    csv,             \* data/*-filtered.csv: the rows of each source file
    dois_to_remove,  \* data/dois-to-remove.csv, column doi
    urls_to_remove,  \* data/urls-to-remove.csv, column url
    doi_lists,       \* the DOI list files of the partitions, column doi
    pdf_dir,         \* the file names in data/pdf
    registry,        \* the answers of Crossref, Unpaywall and OpenAlex, by DOI
    df_final,        \* the data frame df_final
    df_normalized,   \* df_final as it was after the DOIs were normalized
    df_doi_pass,     \* df_final as it was after the DOI pass
    df_title_pass,   \* df_final as it was after the Title pass
    out              \* the CSV files written to /tmp

fn_vars == <<arg, res, res2>>
env_vars == <<csv, dois_to_remove, urls_to_remove, doi_lists, pdf_dir, registry>>
df_vars == <<df_final, df_normalized, df_doi_pass, df_title_pass, out>>
vars == <<pc, arg, res, res2, csv, dois_to_remove, urls_to_remove, doi_lists,
          pdf_dir, registry, df_final, df_normalized, df_doi_pass, df_title_pass, out>>

---------------------------------------------------------------------------
(* Strings *)

\* pd.NA: distinct from every str, the empty str included
NA == <<"<NA>">>

\* U+200B ZERO WIDTH SPACE
ZWSP == "<U+200B>"

isna(x) == x = NA

StartsWith(s, p) == Len(s) >= Len(p) /\ SubSeq(s, 1, Len(p)) = p

\* s[n:], dropping the first n characters
Drop(s, n) == SubSeq(s, n + 1, Len(s))

\* str.replace(old, new): every non-overlapping occurrence, left to right
RECURSIVE Replace(_, _, _)
Replace(s, old, new) ==
    IF Len(s) < Len(old) THEN s
    ELSE IF StartsWith(s, old) THEN new \o Replace(Drop(s, Len(old)), old, new)
    ELSE <<Head(s)>> \o Replace(Tail(s), old, new)

\* "old in s"
Contains(s, old) == \E i \in 1..(Len(s) - Len(old) + 1) : SubSeq(s, i, i + Len(old) - 1) = old

UpperCase == <<"A", "B", "C", "D", "E", "F", "G", "H", "I", "J", "K", "L", "M",
               "N", "O", "P", "Q", "R", "S", "T", "U", "V", "W", "X", "Y", "Z">>
LowerCase == <<"a", "b", "c", "d", "e", "f", "g", "h", "i", "j", "k", "l", "m",
               "n", "o", "p", "q", "r", "s", "t", "u", "v", "w", "x", "y", "z">>

LowerChar(c) ==
    IF \E i \in 1..Len(UpperCase) : UpperCase[i] = c
    THEN LowerCase[CHOOSE i \in 1..Len(UpperCase) : UpperCase[i] = c]
    ELSE c

\* str.lower()
Lower(s) == [i \in 1..Len(s) |-> LowerChar(s[i])]

\* characters str.strip() removes
Whitespace == {" ", "\t", "\n", "\r"}

RECURSIVE LStrip(_)
LStrip(s) == IF s # <<>> /\ Head(s) \in Whitespace THEN LStrip(Tail(s)) ELSE s

RECURSIVE RStrip(_)
RStrip(s) ==
    IF s # <<>> /\ s[Len(s)] \in Whitespace THEN RStrip(SubSeq(s, 1, Len(s) - 1)) ELSE s

\* str.strip()
Strip(s) == RStrip(LStrip(s))

---------------------------------------------------------------------------
(* util.normalize_doi *)

DOI_COLON == <<"d", "o", "i", ":">>
DX_DOI_UPPER == <<"h", "t", "t", "p", ":", "/", "/", "d", "x", ".", "d", "o", "i", ".", "o", "r", "g", "/", "D", "O", "I", ":">>
HTTPS_SPACE_DOI == <<"h", "t", "t", "p", "s", ":", "/", "/", " ", "d", "o", "i", ".", "o", "r", "g", "/">>
TANDFONLINE == <<"h", "t", "t", "p", "s", ":", "/", "/", "w", "w", "w", ".", "t", "a", "n", "d", "f", "o", "n", "l", "i", "n", "e", ".", "c", "o", "m", "/", "d", "o", "i", "/", "f", "u", "l", "l", "/">>
DOI_ORG == <<"h", "t", "t", "p", "s", ":", "/", "/", "d", "o", "i", ".", "o", "r", "g", "/">>
DOI_ORG_10 == <<"h", "t", "t", "p", "s", ":", "/", "/", "d", "o", "i", ".", "o", "r", "g", "/", "1", "0", ".">>

\* the strings  ^https?://(dx\.)?doi\.org/  matches
DoiOrgPrefixes ==
    { <<"h", "t", "t", "p">> \o s \o <<":", "/", "/">> \o dx \o <<"d", "o", "i", ".", "o", "r", "g", "/">> :
        s \in {<<>>, <<"s">>}, dx \in {<<>>, <<"d", "x", ".">>} }

\* re.sub(r"^https?://(dx\.)?doi\.org/", "", doi): the pattern is anchored, so
\* at most the one match at the start of the string is removed
StripDoiOrgPrefix(s) ==
    IF \E p \in DoiOrgPrefixes : StartsWith(s, p)
    THEN Drop(s, Len(CHOOSE p \in DoiOrgPrefixes : StartsWith(s, p)))
    ELSE s

\* the steps of normalize_doi on a str, in the order of the code
NoDoiColon(s) == Replace(s, DOI_COLON, <<>>)
FixLeadingZero(s) == IF StartsWith(s, <<"0", ".">>) THEN <<"1">> \o s ELSE s
NoDxDoiUpper(s) == Replace(s, DX_DOI_UPPER, <<>>)
NoHttpsSpaceDoi(s) == Replace(s, HTTPS_SPACE_DOI, <<>>)
NoTandfonline(s) == Replace(s, TANDFONLINE, <<>>)
NoZwsp(s) == Replace(s, <<ZWSP>>, <<>>)

normalize_doi(doi) ==
    IF isna(doi) THEN NA
    ELSE DOI_ORG \o
         Strip(Lower(NoZwsp(NoTandfonline(NoHttpsSpaceDoi(StripDoiOrgPrefix(
             NoDxDoiUpper(FixLeadingZero(NoDoiColon(doi)))))))))

---------------------------------------------------------------------------
(* util.py: get_publication_date *)

DecimalDigits == <<"0", "1", "2", "3", "4", "5", "6", "7", "8", "9">>

IsDigit(c) == \E n \in 1..Len(DecimalDigits) : DecimalDigits[n] = c

DigitValue(c) == (CHOOSE n \in 1..Len(DecimalDigits) : DecimalDigits[n] = c) - 1

\* int(s) for a string of digits
RECURSIVE ToInt(_)
ToInt(s) ==
    IF s = <<>> THEN 0
    ELSE ToInt(SubSeq(s, 1, Len(s) - 1)) * 10 + DigitValue(s[Len(s)])

\* str.split(sep) for a separator of one character
RECURSIVE Split(_, _)
Split(s, sep) ==
    IF \A i \in 1..Len(s) : s[i] # sep THEN <<s>>
    ELSE LET i == CHOOSE k \in 1..Len(s) : s[k] = sep /\ \A j \in 1..(k - 1) : s[j] # sep
         IN  <<SubSeq(s, 1, i - 1)>> \o Split(Drop(s, i), sep)

\* exceptions, as results distinct from every str and from NA
ValueError == <<"<ValueError>">>
UnboundLocalError == <<"<UnboundLocalError>">>
KeyError == <<"<KeyError>">>
ConnectionError == <<"<ConnectionError>">>

Raised(x) == x \in {ValueError, UnboundLocalError, KeyError, ConnectionError}

\* the regular expressions of _strptime for %Y, %m and %d
MatchesYear(p) == Len(p) = 4 /\ \A i \in 1..4 : IsDigit(p[i])

MatchesMonth(p) ==
    \/ Len(p) = 2 /\ p[1] = "1" /\ p[2] \in {"0", "1", "2"}
    \/ Len(p) = 2 /\ p[1] = "0" /\ IsDigit(p[2]) /\ p[2] # "0"
    \/ Len(p) = 1 /\ IsDigit(p[1]) /\ p[1] # "0"

MatchesDay(p) ==
    \/ Len(p) = 2 /\ p[1] = "3" /\ p[2] \in {"0", "1"}
    \/ Len(p) = 2 /\ p[1] \in {"1", "2"} /\ IsDigit(p[2])
    \/ Len(p) = 2 /\ p[1] \in {"0", " "} /\ IsDigit(p[2]) /\ p[2] # "0"
    \/ Len(p) = 1 /\ IsDigit(p[1]) /\ p[1] # "0"

IsLeap(y) == (y % 4 = 0 /\ y % 100 # 0) \/ y % 400 = 0

DaysInMonth(y, m) ==
    IF m = 2 THEN (IF IsLeap(y) THEN 29 ELSE 28)
    ELSE IF m \in {4, 6, 9, 11} THEN 30
    ELSE 31

\* datetime.strptime(s, "%Y"), (s, "%Y-%m") or (s, "%Y-%m-%d") for s made of
\* 1, 2 or 3 parts joined by "-": the date <<year, month, day>>, or ValueError
strptime(parts) ==
    IF \/ ~MatchesYear(parts[1])
       \/ Len(parts) >= 2 /\ ~MatchesMonth(parts[2])
       \/ Len(parts) = 3 /\ ~MatchesDay(parts[3])
    THEN ValueError
    ELSE LET y == ToInt(parts[1])
             m == IF Len(parts) >= 2 THEN ToInt(parts[2]) ELSE 1
             d == IF Len(parts) < 3 THEN 1
                  ELSE IF parts[3][1] = " " THEN ToInt(Tail(parts[3]))
                  ELSE ToInt(parts[3])
         IN  IF y = 0 \/ d > DaysInMonth(y, m) THEN ValueError ELSE <<y, m, d>>

\* issue_date_dt = False
NoDatetime == <<>>

\* the datetime of a date column: none for a missing value and for a value of
\* more than three parts
DateColumnDatetime(date) ==
    IF isna(date) THEN NoDatetime
    ELSE LET parts == Split(date, "-")
         IN  IF Len(parts) <= 3 THEN strptime(parts) ELSE NoDatetime

\* a < b for datetimes
DatetimeBefore(a, b) ==
    \/ a[1] < b[1]
    \/ a[1] = b[1] /\ a[2] < b[2]
    \/ a[1] = b[1] /\ a[2] = b[2] /\ a[3] < b[3]

YEAR_2011 == <<"2", "0", "1", "1">>

\* the earlier of the two dates, with no exception for online dates in 2011
get_publication_date_earlier(issue_date, online_date) ==
    LET issue_date_dt == DateColumnDatetime(issue_date)
        online_date_dt == DateColumnDatetime(online_date)
    IN  IF issue_date_dt = ValueError \/ online_date_dt = ValueError THEN ValueError
        ELSE IF issue_date_dt # NoDatetime /\ online_date_dt # NoDatetime
             THEN IF DatetimeBefore(issue_date_dt, online_date_dt) THEN issue_date
                  ELSE online_date
        ELSE IF issue_date_dt # NoDatetime THEN issue_date
        ELSE IF online_date_dt # NoDatetime THEN online_date
        ELSE UnboundLocalError

\* util.get_publication_date(row), for row["Publication date"] and
\* row["Publication date (Online)"]: the date returned, or the exception raised
get_publication_date(issue_date, online_date) ==
    LET issue_date_dt == DateColumnDatetime(issue_date)
        online_date_dt == DateColumnDatetime(online_date)
    IN  IF issue_date_dt = ValueError \/ online_date_dt = ValueError THEN ValueError
        ELSE IF issue_date_dt # NoDatetime /\ online_date_dt # NoDatetime
             THEN IF DatetimeBefore(issue_date_dt, online_date_dt) THEN issue_date
                  ELSE IF StartsWith(online_date, YEAR_2011) THEN issue_date
                  ELSE online_date
        ELSE IF issue_date_dt # NoDatetime THEN issue_date
        ELSE IF online_date_dt # NoDatetime THEN online_date
        ELSE UnboundLocalError

---------------------------------------------------------------------------
(* util.py: the lookups at Crossref, Unpaywall and OpenAlex                *)
(*                                                                         *)
(* The answer to a request is a record: status "error" when no answer came *)
(* (requests raises ConnectionError), "not_ok" for an HTTP error status,   *)
(* and "ok" with the JSON document in json.  A JSON object is a function   *)
(* from its keys; a key that is not there is not in its DOMAIN.            *)

NoAnswer == [status |-> "error"]
NotOk == [status |-> "not_ok"]
Ok(data) == [status |-> "ok", json |-> data]

HasKey(obj, key) == key \in DOMAIN obj

UpperChar(c) ==
    IF \E i \in 1..Len(LowerCase) : LowerCase[i] = c
    THEN UpperCase[CHOOSE i \in 1..Len(LowerCase) : LowerCase[i] = c]
    ELSE c

\* str.upper()
Upper(s) == [i \in 1..Len(s) |-> UpperChar(s[i])]

\* str.rstrip(c) for one character c
RECURSIVE RStripChar(_, _)
RStripChar(s, c) ==
    IF s # <<>> /\ s[Len(s)] = c THEN RStripChar(SubSeq(s, 1, Len(s) - 1), c) ELSE s

HTTP == <<"h", "t", "t", "p">>
CC_DASH == <<"C", "C", "-">>
CC0 == <<"C", "C", "0", "-", "1", ".", "0">>
CC_BY_4 == <<"C", "C", "-", "B", "Y", "-", "4", ".", "0">>
CREATIVECOMMONS_ORG == <<"c", "r", "e", "a", "t", "i", "v", "e", "c", "o", "m", "m", "o", "n", "s", ".", "o", "r", "g">>
PUBLICDOMAIN_ZERO == <<"p", "u", "b", "l", "i", "c", "d", "o", "m", "a", "i", "n", "/", "z", "e", "r", "o", "/", "1", ".", "0">>
LEGALCODE == <<"/", "l", "e", "g", "a", "l", "c", "o", "d", "e">>
DEED_EN_GB == <<"/", "d", "e", "e", "d", ".", "e", "n", "_", "G", "B">>
IGO == <<"i", "g", "o">>
COPYRIGHTED == <<"C", "o", "p", "y", "r", "i", "g", "h", "t", "e", "d", ";", " ", "a", "l", "l", " ", "r", "i", "g", "h", "t", "s", " ", "r", "e", "s", "e", "r", "v", "e", "d">>

\* the license URLs of publishers that get_license reads as copyright
PublisherLicenses ==
    << <<"h", "t", "t", "p", "s", ":", "/", "/", "w", "w", "w", ".", "e", "l", "s", "e", "v", "i", "e", "r", ".", "c", "o", "m", "/", "t", "d", "m", "/", "u", "s", "e", "r", "l", "i", "c", "e", "n", "s", "e", "/", "1", ".", "0", "/">>,
       <<"h", "t", "t", "p", ":", "/", "/", "w", "w", "w", ".", "s", "p", "r", "i", "n", "g", "e", "r", ".", "c", "o", "m", "/", "t", "d", "m">>,
       <<"h", "t", "t", "p", ":", "/", "/", "o", "n", "l", "i", "n", "e", "l", "i", "b", "r", "a", "r", "y", ".", "w", "i", "l", "e", "y", ".", "c", "o", "m", "/", "t", "e", "r", "m", "s", "A", "n", "d", "C", "o", "n", "d", "i", "t", "i", "o", "n", "s", "#", "v", "o", "r">>,
       <<"h", "t", "t", "p", ":", "/", "/", "w", "w", "w", ".", "e", "l", "s", "e", "v", "i", "e", "r", ".", "c", "o", "m", "/", "o", "p", "e", "n", "-", "a", "c", "c", "e", "s", "s", "/", "u", "s", "e", "r", "l", "i", "c", "e", "n", "s", "e", "/", "1", ".", "0", "/">>,
       <<"h", "t", "t", "p", "s", ":", "/", "/", "w", "w", "w", ".", "s", "p", "r", "i", "n", "g", "e", "r", ".", "c", "o", "m", "/", "t", "d", "m">>,
       <<"h", "t", "t", "p", "s", ":", "/", "/", "w", "w", "w", ".", "s", "p", "r", "i", "n", "g", "e", "r", "n", "a", "t", "u", "r", "e", ".", "c", "o", "m", "/", "g", "p", "/", "r", "e", "s", "e", "a", "r", "c", "h", "e", "r", "s", "/", "t", "e", "x", "t", "-", "a", "n", "d", "-", "d", "a", "t", "a", "-", "m", "i", "n", "i", "n", "g">>,
       <<"h", "t", "t", "p", "s", ":", "/", "/", "w", "w", "w", ".", "c", "a", "m", "b", "r", "i", "d", "g", "e", ".", "o", "r", "g", "/", "c", "o", "r", "e", "/", "t", "e", "r", "m", "s">>,
       <<"h", "t", "t", "p", "s", ":", "/", "/", "a", "c", "a", "d", "e", "m", "i", "c", ".", "o", "u", "p", ".", "c", "o", "m", "/", "p", "a", "g", "e", "s", "/", "s", "t", "a", "n", "d", "a", "r", "d", "-", "p", "u", "b", "l", "i", "c", "a", "t", "i", "o", "n", "-", "r", "e", "u", "s", "e", "-", "r", "i", "g", "h", "t", "s">>,
       <<"h", "t", "t", "p", "s", ":", "/", "/", "w", "w", "w", ".", "e", "l", "s", "e", "v", "i", "e", "r", ".", "c", "o", "m", "/", "l", "e", "g", "a", "l", "/", "t", "d", "m", "r", "e", "p", "-", "l", "i", "c", "e", "n", "s", "e">>,
       <<"h", "t", "t", "p", ":", "/", "/", "d", "o", "i", ".", "w", "i", "l", "e", "y", ".", "c", "o", "m", "/", "1", "0", ".", "1", "0", "0", "2", "/", "t", "d", "m", "_", "l", "i", "c", "e", "n", "s", "e", "_", "1", ".", "1">> >>

\* license.replace(url, "Copyrighted; all rights reserved") for the URLs of
\* PublisherLicenses[k..], in their order
RECURSIVE InferCopyrightFrom(_, _)
InferCopyrightFrom(license, k) ==
    IF k > Len(PublisherLicenses) THEN license
    ELSE InferCopyrightFrom(Replace(license, PublisherLicenses[k], COPYRIGHTED), k + 1)

InferCopyright(license) == InferCopyrightFrom(license, 1)

\* doi_licenses: the URL of the last entry of each content version
LicenseOfVersion(licenses, version) ==
    licenses[CHOOSE i \in 1..Len(licenses) :
                /\ licenses[i].content_version = version
                /\ \A j \in (i + 1)..Len(licenses) : licenses[j].content_version # version].URL

VersionReported(licenses, version) == \E i \in 1..Len(licenses) : licenses[i].content_version = version

\* the license of the preferred content version, or KeyError
PreferredLicense(licenses) ==
    IF VersionReported(licenses, "am") THEN LicenseOfVersion(licenses, "am")
    ELSE IF VersionReported(licenses, "vor") THEN LicenseOfVersion(licenses, "vor")
    ELSE IF VersionReported(licenses, "tdm") THEN LicenseOfVersion(licenses, "tdm")
    ELSE IF VersionReported(licenses, "unspecified") THEN LicenseOfVersion(licenses, "unspecified")
    ELSE KeyError

\* the name of a creativecommons.org license, or ValueError when the URL has
\* too few parts to unpack
CreativeCommonsName(url) ==
    IF Contains(url, PUBLICDOMAIN_ZERO) THEN CC0
    ELSE LET license == RStripChar(Replace(Replace(url, LEGALCODE, <<>>), DEED_EN_GB, <<>>), "/")
             parts == Split(license, "/")
             n == Len(parts)
         IN  IF ~Contains(license, IGO)
             THEN IF n < 2 THEN ValueError
                  ELSE Upper(CC_DASH \o parts[n - 1] \o <<"-">> \o parts[n])
             ELSE IF n < 3 THEN ValueError
                  ELSE Upper(CC_DASH \o parts[n - 2] \o <<"-">> \o parts[n - 1] \o <<"-">> \o parts[n])

\* the try block of get_license: the license read from the JSON document,
\* NA when a key is missing, ValueError when the unpacking fails
ParsedLicense(data) ==
    IF ~HasKey(data, "message") THEN NA
    ELSE IF ~HasKey(data.message, "license") THEN NA
    ELSE LET url == PreferredLicense(data.message.license)
         IN  IF url = KeyError THEN NA
             ELSE IF Contains(url, CREATIVECOMMONS_ORG) THEN CreativeCommonsName(url)
             ELSE url

\* util.get_license(doi), given Crossref's answer for the DOI: the license, NA,
\* or the exception raised
get_license(doi, answer) ==
    IF isna(doi) \/ ~StartsWith(doi, DOI_ORG_10) THEN NA
    ELSE IF answer.status = "error" THEN ConnectionError
    ELSE IF answer.status = "not_ok" THEN NA
    ELSE LET license == ParsedLicense(answer.json)
         IN  IF license = ValueError THEN ValueError
             ELSE IF isna(license) THEN NA
             ELSE LET inferred == InferCopyright(license)
                  IN  IF Contains(inferred, HTTP) THEN NA ELSE inferred

GOLD_OPEN_ACCESS == <<"G", "o", "l", "d", " ", "O", "p", "e", "n", " ", "A", "c", "c", "e", "s", "s">>
GREEN_OPEN_ACCESS == <<"G", "r", "e", "e", "n", " ", "O", "p", "e", "n", " ", "A", "c", "c", "e", "s", "s">>
HYBRID_OPEN_ACCESS == <<"H", "y", "b", "r", "i", "d", " ", "O", "p", "e", "n", " ", "A", "c", "c", "e", "s", "s">>
BRONZE_OPEN_ACCESS == <<"B", "r", "o", "n", "z", "e", " ", "O", "p", "e", "n", " ", "A", "c", "c", "e", "s", "s">>
OPEN_ACCESS == <<"O", "p", "e", "n", " ", "A", "c", "c", "e", "s", "s">>
LIMITED_ACCESS == <<"L", "i", "m", "i", "t", "e", "d", " ", "A", "c", "c", "e", "s", "s">>

\* util.get_access_rights(doi), given Unpaywall's answer for the DOI
get_access_rights(doi, answer) ==
    IF isna(doi) \/ ~StartsWith(doi, DOI_ORG_10) THEN NA
    ELSE IF answer.status = "error" THEN ConnectionError
    ELSE IF answer.status = "not_ok" THEN NA
    ELSE LET data == answer.json
         IN  IF ~HasKey(data, "is_oa") THEN KeyError
             ELSE IF ~data.is_oa THEN LIMITED_ACCESS
             ELSE IF ~HasKey(data, "oa_status") THEN KeyError
             ELSE CASE data.oa_status = "gold" -> GOLD_OPEN_ACCESS
                    [] data.oa_status = "green" -> GREEN_OPEN_ACCESS
                    [] data.oa_status = "hybrid" -> HYBRID_OPEN_ACCESS
                    [] data.oa_status = "bronze" -> BRONZE_OPEN_ACCESS
                    [] OTHER -> OPEN_ACCESS

\* util.clean_string
clean_string(string) ==
    Strip(Replace(Replace(Replace(string, <<"\n">>, <<" ">>), <<"\r">>, <<" ">>), <<" ", " ">>, <<" ">>))

\* sep.join(list)
RECURSIVE Join(_, _)
Join(list, sep) ==
    IF list = <<>> THEN <<>>
    ELSE IF Len(list) = 1 THEN list[1]
    ELSE list[1] \o sep \o Join(Tail(list), sep)

\* a list without the entries that occur earlier in it
RECURSIVE Unique(_)
Unique(list) ==
    IF list = <<>> THEN <<>>
    ELSE LET front == Unique(SubSeq(list, 1, Len(list) - 1))
             last == list[Len(list)]
         IN  IF \E i \in 1..Len(front) : front[i] = last THEN front ELSE Append(front, last)

\* pyalex: w["abstract"] is the text of w["abstract_inverted_index"], None
\* for null; a key that is missing raises KeyError
WorkAbstract(w) ==
    IF ~HasKey(w, "abstract_inverted_index") THEN KeyError ELSE w.abstract_inverted_index

\* util.retrieve_abstract_openalex(row), given OpenAlex's answer for the DOI;
\* pyalex raises HTTPError for an HTTP error status
retrieve_abstract_openalex(row, answer) ==
    IF ~isna(row.Abstract) THEN row.Abstract
    ELSE IF answer.status = "error" THEN ConnectionError
    ELSE IF answer.status = "not_ok" THEN NA
    ELSE LET abstract == WorkAbstract(answer.json)
         IN  IF abstract = KeyError THEN KeyError
             ELSE IF isna(abstract) \/ abstract = <<>> THEN NA
             ELSE abstract

\* util.retrieve_publisher_crossref(row), given Crossref's answer for the DOI
retrieve_publisher_crossref(row, answer) ==
    IF ~isna(row.Publisher) THEN row.Publisher
    ELSE IF answer.status = "error" THEN ConnectionError
    ELSE IF answer.status = "not_ok" THEN NA
    ELSE LET data == answer.json
         IN  IF HasKey(data, "message") /\ HasKey(data.message, "publisher")
             THEN data.message.publisher
             ELSE NA

\* the raw affiliation strings of all authors, cleaned, in order
RECURSIVE CleanAffiliationsFrom(_, _)
CleanAffiliationsFrom(authorships, k) ==
    IF k > Len(authorships) THEN <<>>
    ELSE LET raw == authorships[k].raw_affiliation_strings
         IN  [i \in 1..Len(raw) |-> clean_string(raw[i])] \o CleanAffiliationsFrom(authorships, k + 1)

\* util.retrieve_affiliations_openalex(row), given OpenAlex's answer for the DOI
retrieve_affiliations_openalex(row, answer) ==
    IF ~isna(row.Affiliations) THEN row.Affiliations
    ELSE IF answer.status = "error" THEN ConnectionError
    ELSE IF answer.status = "not_ok" THEN NA
    ELSE LET w == answer.json
         IN  IF ~HasKey(w, "authorships") THEN KeyError
             ELSE IF w.authorships = <<>> THEN NA
             ELSE IF \E k \in 1..Len(w.authorships) : ~HasKey(w.authorships[k], "raw_affiliation_strings")
                  THEN KeyError
             ELSE Join(Unique(CleanAffiliationsFrom(w.authorships, 1)), <<";", " ">>)

\* filter_abstracts keeping the abstract whenever Usage rights is there
filter_abstracts_any_rights(row, answer) ==
    IF isna(row.Abstract) THEN NA
    ELSE IF ~isna(row.Usage) THEN row.Abstract
    ELSE IF answer.status = "error" THEN ConnectionError
    ELSE IF answer.status = "not_ok" THEN NA
    ELSE LET data == answer.json
         IN  IF HasKey(data, "message") /\ HasKey(data.message, "abstract")
             THEN row.Abstract
             ELSE NA

\* util.filter_abstracts(row), given Crossref's answer for the DOI
filter_abstracts(row, answer) ==
    IF isna(row.Abstract) THEN NA
    ELSE IF ~isna(row.Usage) /\ Contains(row.Usage, CC_DASH) THEN row.Abstract
    ELSE IF answer.status = "error" THEN ConnectionError
    ELSE IF answer.status = "not_ok" THEN NA
    ELSE LET data == answer.json
         IN  IF HasKey(data, "message") /\ HasKey(data.message, "abstract")
             THEN row.Abstract
             ELSE NA

---------------------------------------------------------------------------
(* merge_source_csvs.py: the data frame *)

\* the order of the list handed to pd.concat
SourceList == <<"CGSpace DSpace", "MELSpace DSpace", "WorldFish DSpace", "CIFOR DSpace",
                "IFPRI Library", "IRRI Library", "ICRISAT OAR", "CIMMYT DSpace">>

Sources == {SourceList[i] : i \in 1..Len(SourceList)}

SourceIndex(s) == CHOOSE i \in 1..Len(SourceList) : SourceList[i] = s

\* pd.read_csv: a cell holding one of the default NA strings is read as NA
NaStrings == {<<>>, <<"N", "A">>, <<"N", "/", "A">>, <<"n", "a", "n">>, <<"n", "u", "l", "l">>}

read_csv_cell(c) == IF c \in NaStrings THEN NA ELSE c

CIFOR_HANDLE == <<"h", "t", "t", "p", "s", ":", "/", "/", "d", "a", "t", "a", ".", "c", "i", "f", "o", "r", ".", "o", "r", "g", "/", "d", "s", "p", "a", "c", "e", "/", "h", "a", "n", "d", "l", "e">>

\* .str.replace(r"^#", "https://data.cifor.org/dspace/handle", regex=True)
FixCiforLink(link) ==
    IF isna(link) THEN NA
    ELSE IF StartsWith(link, <<"#">>) THEN CIFOR_HANDLE \o Tail(link)
    ELSE link

\* The Repository link column of a source: the IRRI export has none, CIFOR's
\* is rewritten, the others are read as they are
RepositoryLink(s, cell) ==
    IF s = "IRRI Library" THEN NA
    ELSE IF s = "CIFOR DSpace" THEN FixCiforLink(read_csv_cell(cell))
    ELSE read_csv_cell(cell)

\* One source's data frame, in the columns of the merged frame that the model
\* keeps: PubDate is "Publication date", Online is "Publication date
\* (Online)", Usage is "Usage rights", Access is "Access rights", Link is
\* "Repository link".  PDF and Original research are columns added later:
\* until then they hold nothing
ReadSource(files, s) ==
    [i \in 1..Len(files[s]) |->
        [Source |-> s,
         DOI |-> read_csv_cell(files[s][i].DOI),
         Title |-> read_csv_cell(files[s][i].Title),
         Link |-> RepositoryLink(s, files[s][i].Link),
         PubDate |-> read_csv_cell(files[s][i].PubDate),
         Online |-> read_csv_cell(files[s][i].Online),
         Abstract |-> read_csv_cell(files[s][i].Abstract),
         Usage |-> read_csv_cell(files[s][i].Usage),
         Access |-> read_csv_cell(files[s][i].Access),
         PDF |-> NA,
         Original |-> FALSE,
         row |-> 0]]

\* pd.concat of the frames of SourceList[k..]
RECURSIVE ConcatFrom(_, _)
ConcatFrom(files, k) ==
    IF k > Len(SourceList) THEN <<>>
    ELSE ReadSource(files, SourceList[k]) \o ConcatFrom(files, k + 1)

\* the merged frame; row is the position of a row in it
Concat(files) ==
    LET f == ConcatFrom(files, 1)
    IN  [i \in 1..Len(f) |-> [f[i] EXCEPT !.row = i]]

\* df[name]
Column(df, name) == [i \in 1..Len(df) |-> df[i][name]]

\* df[mask], for a boolean mask as long as df
RECURSIVE BoolIndexFrom(_, _, _)
BoolIndexFrom(df, mask, i) ==
    IF i > Len(df) THEN <<>>
    ELSE (IF mask[i] THEN <<df[i]>> ELSE <<>>) \o BoolIndexFrom(df, mask, i + 1)

BoolIndex(df, mask) == BoolIndexFrom(df, mask, 1)

\* Series.duplicated(): TRUE where an earlier entry is equal; NA equals NA
duplicated(col) == [i \in 1..Len(col) |-> \E j \in 1..(i - 1) : col[j] = col[i]]

\* df_final["DOI"].apply(util.normalize_doi)
NormalizeDoiColumn(df) == [i \in 1..Len(df) |-> [df[i] EXCEPT !.DOI = normalize_doi(df[i].DOI)]]

\* the DOI pass as a plain drop of duplicates, rows without a DOI included
DropDuplicateDoisNaToo(df) ==
    LET dup == duplicated(Column(df, "DOI"))
    IN  BoolIndex(df, [i \in 1..Len(df) |-> ~dup[i]])

\* df_final[(~df_final["DOI"].duplicated()) | df_final["DOI"].isna()]
DropDuplicateDois(df) ==
    LET dup == duplicated(Column(df, "DOI"))
    IN  BoolIndex(df, [i \in 1..Len(df) |-> ~dup[i] \/ isna(df[i].DOI)])

\* the Title pass with subset=["Title", "DOI"]
DropDuplicateTitleDoiPairs(df) ==
    BoolIndex(df, [i \in 1..Len(df) |->
        ~\E j \in 1..(i - 1) : df[j].Title = df[i].Title /\ df[j].DOI = df[i].DOI])

\* the Title pass comparing lowercased titles
DropDuplicateTitlesIgnoringCase(df) ==
    LET folded == [i \in 1..Len(df) |-> IF isna(df[i].Title) THEN NA ELSE Lower(df[i].Title)]
    IN  BoolIndex(df, [i \in 1..Len(df) |-> ~duplicated(folded)[i]])

\* df_final.drop_duplicates(subset=["Title"], keep="first")
DropDuplicateTitles(df) ==
    LET dup == duplicated(Column(df, "Title"))
    IN  BoolIndex(df, [i \in 1..Len(df) |-> ~dup[i]])

\* the exclusion as a substring match: df[~df[name].str.contains(value)]
DropContaining(df, name, values) ==
    BoolIndex(df, [i \in 1..Len(df) |->
        ~(~isna(df[i][name]) /\ \E v \in values : Contains(df[i][name], v))])

\* df[~df[name].isin(values)]
DropIsin(df, name, values) == BoolIndex(df, [i \in 1..Len(df) |-> df[i][name] \notin values])

\* the selection as a substring match: df[df[name].str.contains(value)]
KeepContaining(df, name, values) ==
    BoolIndex(df, [i \in 1..Len(df) |->
        ~isna(df[i][name]) /\ \E v \in values : Contains(df[i][name], v)])

\* df[df[name].isin(values)]
KeepIsin(df, name, values) == BoolIndex(df, [i \in 1..Len(df) |-> df[i][name] \in values])

\* the DOI filter as df["DOI"].notna()
HasSomeDoi(r) == ~isna(r.DOI)

\* df["DOI"].str.startswith("https://doi.org/10.", na=False)
HasCanonicalDoi(r) == ~isna(r.DOI) /\ StartsWith(r.DOI, DOI_ORG_10)

\* util.pdf_exists, with dir the names of the files in data/pdf
pdf_exists(doi, dir) ==
    IF isna(doi) THEN NA
    ELSE LET doi_pdf_file == Replace(Replace(doi, DOI_ORG, <<>>), <<"/">>, <<"-">>) \o <<".", "p", "d", "f">>
         IN  IF doi_pdf_file \in dir THEN doi_pdf_file ELSE NA

AddPdfColumn(df, dir) == [i \in 1..Len(df) |-> [df[i] EXCEPT !.PDF = pdf_exists(df[i].DOI, dir)]]

\* the answer of a service for a DOI; a DOI it does not know gets a 404
Answer(reg, api, doi) == IF doi \in DOMAIN reg[api] THEN reg[api][doi] ELSE NotOk

\* Series.combine_first with the repository's value first
combine_first_repository(looked_up, repository) ==
    IF ~isna(repository) THEN repository ELSE looked_up

\* looked_up.combine_first(repository), value by value
combine_first(looked_up, repository) ==
    IF ~isna(looked_up) THEN looked_up ELSE repository

\* .str.replace("Attribution 4.0", "CC-BY-4.0")
AlignUsage(rights) ==
    IF isna(rights) THEN NA ELSE Replace(rights, <<"A", "t", "t", "r", "i", "b", "u", "t", "i", "o", "n", " ", "4", ".", "0">>, CC_BY_4)

\* the three .str.replace of Access rights, in their order
AlignAccess(rights) ==
    IF isna(rights) THEN NA
    ELSE Replace(Replace(Replace(rights,
             <<"C", "l", "o", "s", "e", "d", " ", "a", "c", "c", "e", "s", "s">>, LIMITED_ACCESS),
             <<"G", "o", "l", "d", " ", "o", "p", "e", "n", " ", "a", "c", "c", "e", "s", "s">>, GOLD_OPEN_ACCESS),
             <<"O", "p", "e", "n", " ", "a", "c", "c", "e", "s", "s">>, OPEN_ACCESS)

\* .str.slice(start=0, stop=4)
YearSlice(date) ==
    IF isna(date) THEN NA ELSE SubSeq(date, 1, IF Len(date) < 4 THEN Len(date) ELSE 4)

\* the results of the lookups and of the date resolution, row by row
LicenseColumn(df, reg) ==
    [i \in 1..Len(df) |-> get_license(df[i].DOI, Answer(reg, "crossref", df[i].DOI))]

AccessColumn(df, reg) ==
    [i \in 1..Len(df) |-> get_access_rights(df[i].DOI, Answer(reg, "unpaywall", df[i].DOI))]

DateColumn(df) ==
    [i \in 1..Len(df) |-> get_publication_date(df[i].PubDate, df[i].Online)]

AbstractColumn(df, reg) ==
    [i \in 1..Len(df) |-> retrieve_abstract_openalex(df[i], Answer(reg, "openalex", df[i].DOI))]

FilteredAbstractColumn(df, reg) ==
    [i \in 1..Len(df) |-> filter_abstracts(df[i], Answer(reg, "crossref", df[i].DOI))]

\* df.apply raises what the function raises for one of the rows
ApplyRaises(column) == \E i \in 1..Len(column) : Raised(column[i])

\* lines 400-409: Usage rights from Crossref, else from the repository
WithUsage(df, licenses) ==
    [i \in 1..Len(df) |-> [df[i] EXCEPT !.Usage = AlignUsage(combine_first(licenses[i], @))]]

\* lines 411-428: Access rights from Unpaywall, else from the repository
WithAccess(df, access) ==
    [i \in 1..Len(df) |-> [df[i] EXCEPT !.Access = AlignAccess(combine_first(access[i], @))]]

WithPubDate(df, dates) == [i \in 1..Len(df) |-> [df[i] EXCEPT !.PubDate = dates[i]]]

WithAbstract(df, abstracts) == [i \in 1..Len(df) |-> [df[i] EXCEPT !.Abstract = abstracts[i]]]

WithYear(df) == [i \in 1..Len(df) |-> [df[i] EXCEPT !.PubDate = YearSlice(@)]]

\* df_final["Original research"] = df_final["DOI"].isin(df_dois_in_review["doi"])
AddOriginalColumn(df, review) ==
    [i \in 1..Len(df) |-> [df[i] EXCEPT !.Original = (df[i].DOI \in review)]]

\* the DOI lists of the partitions and the files they select
Partitions == {"used-in-review", "combined", "drought", "rainfall", "adaptation"}

OutputFiles == Partitions \cup {"missing-dois", "output", "missing-pdfs"}

---------------------------------------------------------------------------
(* merge_source_csvs.py: the script, step by step *)

\* lines 25-308: read the source files, concatenate them in the order of
\* SourceList and normalize the DOI column
Merge ==
    /\ pc = "merge"
    /\ df_final' = NormalizeDoiColumn(Concat(csv))
    /\ df_normalized' = df_final'
    /\ pc' = "dedup_doi"
    /\ UNCHANGED <<fn_vars, env_vars, df_doi_pass, df_title_pass, out>>

\* lines 312-316: the DOI pass
DedupDoi ==
    /\ pc = "dedup_doi"
    /\ df_final' = DropDuplicateDois(df_final)
    /\ df_doi_pass' = df_final'
    /\ pc' = "dedup_title"
    /\ UNCHANGED <<fn_vars, env_vars, df_normalized, df_title_pass, out>>

\* lines 325-328: the Title pass
DedupTitle ==
    /\ pc = "dedup_title"
    /\ df_final' = DropDuplicateTitles(df_final)
    /\ df_title_pass' = df_final'
    /\ pc' = "exclude"
    /\ UNCHANGED <<fn_vars, env_vars, df_normalized, df_doi_pass, out>>

\* lines 363-383: drop the rows on the exclusion lists
Exclude ==
    /\ pc = "exclude"
    /\ df_final' = DropIsin(DropIsin(df_final, "DOI", dois_to_remove), "Link", urls_to_remove)
    /\ pc' = "missing_dois"
    /\ UNCHANGED <<fn_vars, env_vars, df_normalized, df_doi_pass, df_title_pass, out>>

\* lines 385-395: write the rows without a canonical DOI, and drop them
MissingDois ==
    /\ pc = "missing_dois"
    /\ out' = [out EXCEPT !["missing-dois"] =
                  BoolIndex(df_final, [i \in 1..Len(df_final) |-> ~HasCanonicalDoi(df_final[i])])]
    /\ df_final' = BoolIndex(df_final, [i \in 1..Len(df_final) |-> HasCanonicalDoi(df_final[i])])
    /\ pc' = "enrich"
    /\ UNCHANGED <<fn_vars, env_vars, df_normalized, df_doi_pass, df_title_pass>>

\* lines 400-576: fill in the columns; of these the model keeps Usage rights,
\* Access rights, PDF, Publication date and Abstract.  An exception raised
\* for a row ends the script
Enrich ==
    /\ pc = "enrich"
    /\ \E licenses \in {LicenseColumn(df_final, registry)} :
       \E df_usage \in {WithUsage(df_final, licenses)} :
       \E access \in {AccessColumn(df_usage, registry)} :
       \E df_access \in {WithAccess(df_usage, access)} :
       \E df_pdf \in {AddPdfColumn(df_access, pdf_dir)} :
       \E dates \in {DateColumn(df_pdf)} :
       \E df_date \in {WithPubDate(df_pdf, dates)} :
       \E abstracts \in {AbstractColumn(df_date, registry)} :
       \E df_abstract \in {WithAbstract(df_date, abstracts)} :
       \E filtered \in {FilteredAbstractColumn(df_abstract, registry)} :
       \E df_filtered \in {WithAbstract(df_abstract, filtered)} :
          LET raised == \/ ApplyRaises(licenses) \/ ApplyRaises(access) \/ ApplyRaises(dates)
                        \/ ApplyRaises(abstracts) \/ ApplyRaises(filtered)
          IN  /\ df_final' = IF ApplyRaises(licenses) THEN df_final
                             ELSE IF ApplyRaises(access) THEN df_usage
                             ELSE IF ApplyRaises(dates) THEN df_pdf
                             ELSE IF ApplyRaises(abstracts) THEN df_date
                             ELSE IF ApplyRaises(filtered) THEN df_abstract
                             ELSE WithYear(df_filtered)
              /\ pc' = IF raised THEN "aborted" ELSE "write"
    /\ UNCHANGED <<fn_vars, env_vars, df_normalized, df_doi_pass, df_title_pass, out>>

\* lines 578-654: flag the rows used in the review, write the partitions,
\* the final dataset and the rows without a PDF
WriteDatasets ==
    /\ pc = "write"
    /\ df_final' = AddOriginalColumn(df_final, doi_lists["used-in-review"])
    /\ out' = [f \in OutputFiles |->
                  IF f \in Partitions THEN KeepIsin(df_final', "DOI", doi_lists[f])
                  ELSE IF f = "output" THEN df_final'
                  ELSE IF f = "missing-pdfs"
                       THEN BoolIndex(df_final', [i \in 1..Len(df_final') |-> isna(df_final'[i].PDF)])
                  ELSE out[f]]
    /\ pc' = "done"
    /\ UNCHANGED <<fn_vars, env_vars, df_normalized, df_doi_pass, df_title_pass>>

Next ==
    \/ Merge
    \/ DedupDoi
    \/ DedupTitle
    \/ Exclude
    \/ MissingDois
    \/ Enrich
    \/ WriteDatasets

---------------------------------------------------------------------------
(* The input files of a run *)

MaxRows == 3

D1 == <<"h", "t", "t", "p", "s", ":", "/", "/", "d", "o", "i", ".", "o", "r", "g", "/", "1", "0", ".", "1", "/", "x">>
D1Y == <<"h", "t", "t", "p", "s", ":", "/", "/", "d", "o", "i", ".", "o", "r", "g", "/", "1", "0", ".", "1", "/", "x", "y">>

\* DOI cells: none, two spellings of 10.1/x, 10.1/xy, and a spelling
\* normalize_doi does not bring to the https://doi.org/10. form
DoiCells == {<<>>,
             <<"1", "0", ".", "1", "/", "x">>,
             <<"d", "o", "i", ":", "1", "0", ".", "1", "/", "X">>,
             <<"1", "0", ".", "1", "/", "x", "y">>,
             <<"D", "O", "I", ":", "1", "0", ".", "1", "/", "x">>}

\* Title cells: none, and two titles that differ in case only
TitleCells == {<<>>, <<"T">>, <<"t">>}

Digits == <<"1", "2", "3", "4", "5", "6", "7", "8", "9">>

\* the link of a record names the record: the k-th record has link Lk
LinkCell(k) == <<"L", Digits[k]>>

SeqsUpTo(S, n) == UNION {[1..k -> S] : k \in 0..n}

\* the other cells of a row: issued in 2015, nothing else known
PlainCells ==
    [PubDate |-> <<"2", "0", "1", "5">>, Online |-> <<>>, Abstract |-> <<>>, Usage |-> <<>>, Access |-> <<>>]

\* a row of a source file
CsvRow(doi, title, link, cells) ==
    [DOI |-> doi, Title |-> title, Link |-> link,
     PubDate |-> cells.PubDate, Online |-> cells.Online, Abstract |-> cells.Abstract,
     Usage |-> cells.Usage, Access |-> cells.Access]

\* the rows of one source file: any DOI and Title cells, each row its own link
CsvFiles ==
    { [k \in 1..Len(cells) |-> CsvRow(cells[k][1], cells[k][2], LinkCell(k), PlainCells)] :
        cells \in SeqsUpTo(DoiCells \X TitleCells, MaxRows) }

\* the source that has rows in the runs of Spec
PopulatedSource == "CGSpace DSpace"

CsvInputs == { [s \in Sources |-> IF s = PopulatedSource THEN file ELSE <<>>] : file \in CsvFiles }

\* the DOI lists of the partitions
DoiLists ==
    [p \in Partitions |->
        CASE p = "used-in-review" -> {D1}
          [] p = "combined" -> {D1, D1Y}
          [] p = "drought" -> {D1Y}
          [] p = "rainfall" -> {}
          [] p = "adaptation" -> {D1, D1Y}]

\* data/pdf holds the PDF of 10.1/x
PdfDir == {<<"1", "0", ".", "1", "-", "x", ".", "p", "d", "f">>}

NoCsv == [s \in Sources |-> <<>>]

\* no DOI is known to any of the services: every request is answered 404
Services == {"crossref", "unpaywall", "openalex"}
NoRegistry == [api \in Services |-> <<>>]
NoLists == [p \in Partitions |-> {}]
NoOutput == [f \in OutputFiles |-> <<>>]

FnIdle == arg = NA /\ res = NA /\ res2 = NA

FramesEmpty ==
    /\ df_final = <<>>
    /\ df_normalized = <<>>
    /\ df_doi_pass = <<>>
    /\ df_title_pass = <<>>
    /\ out = NoOutput

Init ==
    /\ pc = "merge"
    /\ FnIdle
    /\ csv \in CsvInputs
    /\ dois_to_remove \in {{}, {D1}}
    /\ urls_to_remove \in {{}, {LinkCell(2)}}
    /\ doi_lists = DoiLists
    /\ pdf_dir = PdfDir
    /\ registry = NoRegistry
    /\ FramesEmpty

Spec == Init /\ [][Next]_vars

---------------------------------------------------------------------------
(* Runs with two sources of one row each, the two rows spelling the same   *)
(* DOI 10.1/x and carrying different titles.                               *)

DoiSpellingPrefixes ==
    { <<>>, DOI_COLON, <<"D", "O", "I", ":">> } \cup DoiOrgPrefixes

DoiSpellings ==
    { p \o b : p \in DoiSpellingPrefixes,
               b \in {<<"1", "0", ".", "1", "/", "x">>, <<"1", "0", ".", "1", "/", "X">>} }

TwoSourceCsv(s1, s2, doi1, doi2, title1, title2) ==
    [s \in Sources |->
        IF s = s1 THEN <<CsvRow(doi1, title1, LinkCell(1), PlainCells)>>
        ELSE IF s = s2 THEN <<CsvRow(doi2, title2, LinkCell(2), PlainCells)>>
        ELSE <<>>]

InitTwoSources ==
    /\ pc = "merge"
    /\ FnIdle
    /\ \E s1, s2 \in Sources, doi1, doi2 \in DoiSpellings, title1, title2 \in {<<"T">>, <<"t">>} :
          /\ SourceIndex(s1) < SourceIndex(s2)
          /\ title1 # title2
          /\ csv = TwoSourceCsv(s1, s2, doi1, doi2, title1, title2)
    /\ dois_to_remove = {}
    /\ urls_to_remove = {}
    /\ doi_lists = DoiLists
    /\ pdf_dir = PdfDir
    /\ registry = NoRegistry
    /\ FramesEmpty

SpecTwoSources == InitTwoSources /\ [][Next]_vars

---------------------------------------------------------------------------
(* Properties of the merge script *)

Rows(df) == {df[i] : i \in 1..Len(df)}
RowIds(df) == {df[i].row : i \in 1..Len(df)}

\* sub holds rows of df, as they are in df and in the order of df
Subframe(sub, df) ==
    /\ \A k \in 1..Len(sub) : sub[k] \in Rows(df)
    /\ \A k, l \in 1..Len(sub) : k < l => sub[k].row < sub[l].row

PastDoiPass == pc \in {"dedup_title", "exclude", "missing_dois", "enrich", "write", "done"}
PastTitlePass == pc \in {"exclude", "missing_dois", "enrich", "write", "done"}
PastExclusion == pc \in {"missing_dois", "enrich", "write", "done"}

\* a row lacks a DOI: the value is absent, or the empty string
NoDoi(d) == isna(d) \/ d = <<>>

RemovedByDoiPass(i) == df_normalized[i].row \notin RowIds(df_doi_pass)
RemovedByTitlePass(p) == df_doi_pass[p].row \notin RowIds(df_title_pass)

\* C1: the DOI pass removes a row if and only if its normalized DOI is not
\* empty or absent and an earlier row of the merged frame has exactly the
\* same normalized DOI; the rows it keeps are unchanged and in input order.
C1_DoiPass ==
    PastDoiPass =>
        /\ \A i \in 1..Len(df_normalized) :
              RemovedByDoiPass(i) <=>
                  /\ ~NoDoi(df_normalized[i].DOI)
                  /\ \E j \in 1..(i - 1) : df_normalized[j].DOI = df_normalized[i].DOI
        /\ Subframe(df_doi_pass, df_normalized)

\* a row is removed for a DOI that an earlier row spells differently, and a
\* row without DOI is kept
C1_Witness ==
    /\ pc = "dedup_title"
    /\ \E i \in 1..Len(df_normalized) :
          /\ RemovedByDoiPass(i)
          /\ \E j \in 1..(i - 1) : csv[PopulatedSource][j].DOI # csv[PopulatedSource][i].DOI
                                   /\ df_normalized[j].DOI = df_normalized[i].DOI
    /\ \E i \in 1..Len(df_normalized) : isna(df_normalized[i].DOI) /\ ~RemovedByDoiPass(i)

FirstSourceWithRows == SourceList[CHOOSE i \in 1..Len(SourceList) :
                           /\ csv[SourceList[i]] # <<>>
                           /\ \A j \in 1..(i - 1) : csv[SourceList[j]] = <<>>]

\* C2: two single-row sources whose DOIs spell the same DOI with another
\* letter case or another handled prefix, and whose Titles differ, leave
\* exactly one row after deduplication, the row of the source that comes
\* first in the source list.
C2_OneRowOfFirstSource ==
    PastTitlePass =>
        /\ Len(df_title_pass) = 1
        /\ df_title_pass[1].Source = FirstSourceWithRows

UniqueDoiAndTitle(df) ==
    \A i, j \in 1..Len(df) : i < j => df[i].DOI # df[j].DOI /\ df[i].Title # df[j].Title

\* the rows of df are rows the Title pass kept, with the DOI and Title they had
KeepsDoiAndTitle(df) ==
    \A r \in Rows(df) : \E q \in Rows(df_title_pass) :
        q.row = r.row /\ q.DOI = r.DOI /\ q.Title = r.Title

\* C3: no two rows of the final dataset, or of a partition, have the same DOI
\* or the same Title; the stages after deduplication add no row and change
\* no DOI or Title.
C3_FinalUnique ==
    /\ PastTitlePass =>
          /\ KeepsDoiAndTitle(df_final)
          /\ \A f \in OutputFiles : KeepsDoiAndTitle(out[f])
    /\ pc = "done" =>
          \A f \in Partitions \cup {"output", "missing-pdfs"} : UniqueDoiAndTitle(out[f])

\* three rows were merged, deduplication removed one, two are in the final dataset
C3_Witness ==
    /\ pc = "done"
    /\ Len(df_normalized) = 3
    /\ Len(df_title_pass) = 2
    /\ Len(out["output"]) = 2

NotExcluded(r) == r.DOI \notin dois_to_remove /\ r.Link \notin urls_to_remove

\* C4: a row whose normalized DOI is an entry of the DOI exclusion list, or
\* whose Repository link is an entry of the link exclusion list, is in no file
\* written afterwards; the exclusion removes these rows and no others (an
\* entry removes the rows equal to it, not the rows that contain it).
C4_Excluded ==
    /\ PastExclusion =>
          /\ \A r \in Rows(df_final) : NotExcluded(r)
          /\ \A f \in OutputFiles : \A r \in Rows(out[f]) : NotExcluded(r)
    /\ pc = "missing_dois" =>
          /\ Subframe(df_final, df_title_pass)
          /\ \A r \in Rows(df_title_pass) : r \in Rows(df_final) <=> NotExcluded(r)

\* 10.1/x is excluded and was there, 10.1/xy (which contains it) is in the
\* final dataset; so is a row removed for its link
C4_Witness ==
    /\ pc = "done"
    /\ \E r \in Rows(df_title_pass) : r.DOI \in dois_to_remove
    /\ \E r \in Rows(df_title_pass) : r.DOI \notin dois_to_remove /\ r.Link \in urls_to_remove
    /\ \E r \in Rows(out["output"]) : \E d \in dois_to_remove : Contains(r.DOI, d)

C10_AbsentTitlesKept ==
    PastTitlePass =>
        \A p \in 1..Len(df_doi_pass) : isna(df_doi_pass[p].Title) => ~RemovedByTitlePass(p)

\* sub is df restricted to the rows that satisfy keep, in the order of df
Selection(sub, df, keep(_)) ==
    /\ Subframe(sub, df)
    /\ \A r \in Rows(df) : r \in Rows(sub) <=> keep(r)

\* C11: each partition holds exactly the rows of the final dataset whose DOI
\* is on the partition's DOI list, in the order of the final dataset, whatever
\* the other lists hold; a row is flagged Original research exactly when it
\* is in the used-in-review partition.
C11_Partitions ==
    pc = "done" =>
        /\ \A p \in Partitions :
              LET OnList(r) == r.DOI \in doi_lists[p]
              IN  Selection(out[p], out["output"], OnList)
        /\ \A r \in Rows(out["output"]) : r.Original <=> r \in Rows(out["used-in-review"])

\* a row on three lists is in the three partitions and flagged; a row whose
\* DOI contains a DOI of the review list is in two others and not flagged
C11_Witness ==
    /\ pc = "done"
    /\ \E r \in Rows(out["output"]) :
          /\ r.Original
          /\ r \in Rows(out["used-in-review"]) \cap Rows(out["combined"]) \cap Rows(out["adaptation"])
    /\ \E r \in Rows(out["output"]) :
          /\ ~r.Original
          /\ r \in Rows(out["combined"]) \cap Rows(out["drought"])
          /\ \E d \in doi_lists["used-in-review"] : Contains(r.DOI, d)

PastDoiFilter == pc \in {"enrich", "write", "done"}

\* the DOI is present and starts with https://doi.org/10.
Canonical(d) == ~isna(d) /\ SubSeq(d, 1, Len(DOI_ORG_10)) = DOI_ORG_10

\* the rows that survived deduplication and exclusion
SurvivedExclusion == {r \in Rows(df_title_pass) : NotExcluded(r)}

\* C12: the missing-DOI file holds exactly the rows that survived
\* deduplication and exclusion and whose DOI is absent or does not start with
\* https://doi.org/10.; the final dataset is made of exactly the other
\* survivors, so it and every partition hold only DOIs of that form; the
\* missing-PDF file holds exactly the rows of the final dataset without PDF.
C12_Diagnostics ==
    /\ PastDoiFilter =>
          /\ Subframe(out["missing-dois"], df_title_pass)
          /\ Rows(out["missing-dois"]) = {r \in SurvivedExclusion : ~Canonical(r.DOI)}
          /\ RowIds(df_final) = {r.row : r \in {s \in SurvivedExclusion : Canonical(s.DOI)}}
          /\ RowIds(df_final) \cap RowIds(out["missing-dois"]) = {}
          /\ RowIds(df_final) \cup RowIds(out["missing-dois"]) = {r.row : r \in SurvivedExclusion}
    /\ pc = "done" =>
          /\ \A f \in Partitions \cup {"output"} : \A r \in Rows(out[f]) : Canonical(r.DOI)
          /\ LET NoPdf(r) == isna(r.PDF)
              IN  Selection(out["missing-pdfs"], out["output"], NoPdf)

\* the missing-DOI file holds a row without DOI and a row with a DOI of
\* another form, and the final dataset a row without PDF
C12_Witness ==
    /\ pc = "done"
    /\ \E r \in Rows(out["missing-dois"]) : isna(r.DOI)
    /\ \E r \in Rows(out["missing-dois"]) : ~isna(r.DOI)
    /\ \E r \in Rows(out["output"]) : r \in Rows(out["missing-pdfs"])

---------------------------------------------------------------------------
(* Inputs of normalize_doi: strings put together from the pieces the        *)
(* function looks for, plus the two worked examples of the documentation.  *)

MaxPieces == 3

DoiPieces ==
    { DOI_COLON,
      <<"D", "O", "I", ":">>,
      <<"d", "o">>,
      <<"i", ":">>,
      <<"h", "t", "t", "p", ":", "/", "/", "d", "x", ".", "d", "o", "i", ".", "o", "r", "g", "/">>,
      DOI_ORG,
      HTTPS_SPACE_DOI,
      TANDFONLINE,
      <<"0", ".">>,
      <<"1", "0", ".", "1", "/", "x">>,
      <<"1", "/", "X">>,
      <<" ">>,
      <<ZWSP>> }

RECURSIVE PieceStrings(_)
PieceStrings(n) ==
    IF n = 0 THEN {<<>>}
    ELSE LET shorter == PieceStrings(n - 1)
         IN  shorter \cup { p \o s : p \in DoiPieces, s \in shorter }

EXAMPLE_DOI_COLON == <<"d", "o", "i", ":", "1", "0", ".", "1", "0", "8", "8", "/", "1", "7", "4", "8", "-", "9", "3", "2", "6", "/", "a", "c", "4", "1", "3", "a">>
EXAMPLE_ZERO == <<"0", ".", "1", "0", "0", "2", "/", "2", "0", "1", "4", "W", "R", "0", "1", "6", "6", "6", "8">>

\* bare DOIs 10.<suffix>
DoiSuffixes ==
    { <<"1", "/", "x">>,
      <<"1", "/", "X">>,
      <<"1", "0", "8", "8", "/", "1", "7", "4", "8", "-", "9", "3", "2", "6", "/", "a", "c", "4", "1", "3", "a">>,
      <<"1", "0", "0", "2", "/", "2", "0", "1", "4", "W", "R", "0", "1", "6", "6", "6", "8">>,
      <<"1", "/", "d", "o", "i", ":", "x">> }

BareDois == { <<"1", "0", ".">> \o s : s \in DoiSuffixes }

\* the known spellings of a bare DOI d
SpellingPrefixes ==
    DoiOrgPrefixes \cup {<<>>, DOI_COLON, DX_DOI_UPPER, HTTPS_SPACE_DOI}

Spellings(d) == { p \o d : p \in SpellingPrefixes } \cup {Tail(d)}

SpelledDois == UNION { Spellings(d) : d \in BareDois }

DoiInputs == {NA, EXAMPLE_DOI_COLON, EXAMPLE_ZERO} \cup PieceStrings(MaxPieces) \cup SpelledDois

---------------------------------------------------------------------------
(* normalize_doi applied once, and then again to its own result, as the    *)
(* converters (icrisat_json_to_csv.export_row, harvest_ifpri) and then     *)
(* merge_source_csvs do.                                                   *)

InitDoi ==
    /\ pc = "doi_start"
    /\ arg \in DoiInputs
    /\ res = NA
    /\ res2 = NA
    /\ csv = NoCsv
    /\ dois_to_remove = {}
    /\ urls_to_remove = {}
    /\ doi_lists = NoLists
    /\ pdf_dir = {}
    /\ registry = NoRegistry
    /\ FramesEmpty

ConverterNormalizeDoi ==
    /\ pc = "doi_start"
    /\ res' = normalize_doi(arg)
    /\ pc' = "doi_once"
    /\ UNCHANGED <<arg, res2, env_vars, df_vars>>

MergeNormalizeDoi ==
    /\ pc = "doi_once"
    /\ res2' = normalize_doi(res)
    /\ pc' = "doi_twice"
    /\ UNCHANGED <<arg, res, env_vars, df_vars>>

NextDoi == ConverterNormalizeDoi \/ MergeNormalizeDoi

SpecDoi == InitDoi /\ [][NextDoi]_vars

---------------------------------------------------------------------------
(* Properties of normalize_doi *)

\* C5: normalize_doi is idempotent on every non-empty string.
C5_Idempotent ==
    (pc = "doi_twice" /\ ~isna(arg) /\ arg # <<>>) => res2 = res

AfterDoiOrg(s) == Drop(s, Len(DOI_ORG))

\* C6: for every input string the result begins with https://doi.org/, is
\* lowercase, has no whitespace right after that prefix or at its end, has no
\* doi: right after the prefix and holds no U+200B.
C6_NormalForm ==
    (pc # "doi_start" /\ ~isna(arg)) =>
        /\ StartsWith(res, DOI_ORG)
        /\ Lower(res) = res
        /\ Strip(AfterDoiOrg(res)) = AfterDoiOrg(res)
        /\ ~StartsWith(AfterDoiOrg(res), DOI_COLON)
        /\ ~Contains(res, <<ZWSP>>)

\* C7: an absent input gives absent and the empty string gives the empty
\* string.
C7_MissingPassesThrough ==
    pc # "doi_start" =>
        /\ (isna(arg) => isna(res))
        /\ (arg = <<>> => res = <<>>)

\* C8: every known spelling of a bare DOI d normalizes to https://doi.org/
\* followed by d in lowercase.
C8_SpellingsFold ==
    pc # "doi_start" =>
        \A d \in BareDois : arg \in Spellings(d) => res = DOI_ORG \o Lower(d)

---------------------------------------------------------------------------
(* Inputs of get_publication_date: well-formed dates around 2011 and the    *)
(* examples of the documentation, and values that are not dates.           *)

WellFormedDates ==
    { <<"2", "0", "1", "5">>,
      <<"2", "0", "1", "4", "-", "0", "6">>,
      <<"2", "0", "1", "1", "-", "1", "2">>,
      <<"2", "0", "1", "2">>,
      <<"2", "0", "1", "6", "-", "0", "3", "-", "0", "1">>,
      <<"2", "0", "1", "5", "-", "0", "1", "-", "0", "1">>,
      <<"2", "0", "1", "0">>,
      <<"2", "0", "1", "1">>,
      <<"2", "0", "1", "2", "-", "0", "1", "-", "1", "5">>,
      <<"2", "0", "1", "1", "-", "0", "1", "-", "0", "1">> }

OtherDateStrings ==
    { <<"2", "0", "1", "5", "-", "0", "1", "-", "0", "1", "-", "0", "1">>,
      <<"2", "0", "1", "5", "-", "1", "3">>,
      <<"2", "0", "1", "5", "0">>,
      <<"2", "0", "1", "4", "-", "6">>,
      <<"2", "0", "1", "5", "-", "0", "2", "-", "3", "0">>,
      <<>> }

DateInputs == {NA} \cup WellFormedDates \cup OtherDateStrings

InitDate ==
    /\ pc = "date_start"
    /\ arg \in DateInputs \X DateInputs
    /\ res = NA
    /\ res2 = NA
    /\ csv = NoCsv
    /\ dois_to_remove = {}
    /\ urls_to_remove = {}
    /\ doi_lists = NoLists
    /\ pdf_dir = {}
    /\ registry = NoRegistry
    /\ FramesEmpty

\* df_final.apply(util.get_publication_date, axis=1), for one row
GetPublicationDate ==
    /\ pc = "date_start"
    /\ res' = get_publication_date(arg[1], arg[2])
    /\ pc' = "date_done"
    /\ UNCHANGED <<arg, res2, env_vars, df_vars>>

NextDate == GetPublicationDate

SpecDate == InitDate /\ [][NextDate]_vars

---------------------------------------------------------------------------
(* Properties of get_publication_date *)

\* the string has the form YYYY, YYYY-MM or YYYY-MM-DD
DateShaped(s) ==
    /\ Len(s) \in {4, 7, 10}
    /\ \A i \in 1..Len(s) : IF i \in {5, 8} THEN s[i] = "-" ELSE IsDigit(s[i])

YearOf(s) == ToInt(SubSeq(s, 1, 4))
MonthOf(s) == IF Len(s) >= 7 THEN ToInt(SubSeq(s, 6, 7)) ELSE 1
DayOf(s) == IF Len(s) = 10 THEN ToInt(SubSeq(s, 9, 10)) ELSE 1

\* a date of the calendar in one of the three forms
IsDate(s) ==
    /\ ~isna(s)
    /\ DateShaped(s)
    /\ YearOf(s) >= 1
    /\ MonthOf(s) \in 1..12
    /\ DayOf(s) \in 1..DaysInMonth(YearOf(s), MonthOf(s))

Earlier(s, u) ==
    \/ YearOf(s) < YearOf(u)
    \/ YearOf(s) = YearOf(u) /\ MonthOf(s) < MonthOf(u)
    \/ YearOf(s) = YearOf(u) /\ MonthOf(s) = MonthOf(u) /\ DayOf(s) < DayOf(u)

\* C13: for an issue date and an online date that are dates in the form YYYY,
\* YYYY-MM or YYYY-MM-DD or are missing: with both present the result is the
\* issue date when the online date is of 2011, and else the string of the
\* earlier date (one of the two strings when they are the same day); with
\* one present the result is that one.
C13_PublicationDate ==
    pc = "date_done" =>
        LET issue == arg[1]
            online == arg[2]
        IN  /\ (IsDate(issue) /\ IsDate(online)) =>
                  /\ YearOf(online) = 2011 => res = issue
                  /\ (YearOf(online) # 2011 /\ Earlier(issue, online)) => res = issue
                  /\ (YearOf(online) # 2011 /\ Earlier(online, issue)) => res = online
                  /\ res \in {issue, online}
            /\ (IsDate(issue) /\ isna(online)) => res = issue
            /\ (isna(issue) /\ IsDate(online)) => res = online

\* issue 2012 and online 2011-12: the online date is the earlier one, and the
\* result is the issue date
C13_Witness ==
    /\ pc = "date_done"
    /\ arg = <<<<"2", "0", "1", "2">>, <<"2", "0", "1", "1", "-", "1", "2">>>>
    /\ res = <<"2", "0", "1", "2">>

\* a value is there and has none of the forms YYYY, YYYY-MM, YYYY-MM-DD
Malformed(s) == ~isna(s) /\ ~DateShaped(s)

\* C14: when the issue date or the online date is present and has none of
\* the forms YYYY, YYYY-MM, YYYY-MM-DD, get_publication_date raises and
\* returns no date.
C14_MalformedFails ==
    (pc = "date_done" /\ (Malformed(arg[1]) \/ Malformed(arg[2]))) => Raised(res)

---------------------------------------------------------------------------
(* Inputs of the lookups: a row and the answer of the service asked.       *)

MaxLicenses == 2

ABSTRACT_A == <<"A">>
ABSTRACT_B == <<"B">>
PUBLISHER_P == <<"P">>
AFFILIATION_F == <<"F">>

\* license URLs: Creative Commons licenses, publishers' terms that
\* get_license knows, one it does not know, and one that continues a known one
LicenseUrls ==
    { <<"h", "t", "t", "p", ":", "/", "/", "c", "r", "e", "a", "t", "i", "v", "e", "c", "o", "m", "m", "o", "n", "s", ".", "o", "r", "g", "/", "l", "i", "c", "e", "n", "s", "e", "s", "/", "b", "y", "/", "4", ".", "0", "/">>,
      <<"h", "t", "t", "p", "s", ":", "/", "/", "c", "r", "e", "a", "t", "i", "v", "e", "c", "o", "m", "m", "o", "n", "s", ".", "o", "r", "g", "/", "l", "i", "c", "e", "n", "s", "e", "s", "/", "b", "y", "-", "n", "c", "/", "4", ".", "0", "/", "l", "e", "g", "a", "l", "c", "o", "d", "e">>,
      <<"h", "t", "t", "p", "s", ":", "/", "/", "c", "r", "e", "a", "t", "i", "v", "e", "c", "o", "m", "m", "o", "n", "s", ".", "o", "r", "g", "/", "p", "u", "b", "l", "i", "c", "d", "o", "m", "a", "i", "n", "/", "z", "e", "r", "o", "/", "1", ".", "0", "/">>,
      <<"h", "t", "t", "p", ":", "/", "/", "c", "r", "e", "a", "t", "i", "v", "e", "c", "o", "m", "m", "o", "n", "s", ".", "o", "r", "g", "/", "l", "i", "c", "e", "n", "s", "e", "s", "/", "b", "y", "/", "3", ".", "0", "/", "i", "g", "o", "/">>,
      <<"h", "t", "t", "p", "s", ":", "/", "/", "w", "w", "w", ".", "e", "l", "s", "e", "v", "i", "e", "r", ".", "c", "o", "m", "/", "t", "d", "m", "/", "u", "s", "e", "r", "l", "i", "c", "e", "n", "s", "e", "/", "1", ".", "0", "/">>,
      <<"h", "t", "t", "p", ":", "/", "/", "w", "w", "w", ".", "s", "p", "r", "i", "n", "g", "e", "r", ".", "c", "o", "m", "/", "t", "d", "m">>,
      <<"h", "t", "t", "p", "s", ":", "/", "/", "e", "x", "a", "m", "p", "l", "e", ".", "o", "r", "g", "/", "l", "i", "c", "e", "n", "s", "e">>,
      <<"h", "t", "t", "p", "s", ":", "/", "/", "w", "w", "w", ".", "c", "a", "m", "b", "r", "i", "d", "g", "e", ".", "o", "r", "g", "/", "c", "o", "r", "e", "/", "t", "e", "r", "m", "s", "/">> }

ContentVersions == {"am", "vor", "tdm", "unspecified", "stm-asf"}

LicenseEntries == [content_version : ContentVersions, URL : LicenseUrls]

LicenseLists == SeqsUpTo(LicenseEntries, MaxLicenses)

EmptyObject == <<>>

\* Crossref's documents without a license list
CrossrefDocuments ==
    { EmptyObject,
      [message |-> EmptyObject],
      [message |-> [abstract |-> ABSTRACT_B]],
      [message |-> [publisher |-> PUBLISHER_P]],
      [message |-> [abstract |-> ABSTRACT_B, publisher |-> PUBLISHER_P, license |-> <<>>]] }

UnpaywallDocuments ==
    { EmptyObject, [is_oa |-> FALSE], [is_oa |-> TRUE] }
    \cup { [is_oa |-> TRUE, oa_status |-> s] : s \in {"gold", "green", "hybrid", "bronze", "closed"} }

OpenAlexDocuments ==
    { EmptyObject,
      [abstract_inverted_index |-> NA, authorships |-> <<>>],
      [abstract_inverted_index |-> <<>>, authorships |-> <<>>],
      [abstract_inverted_index |-> ABSTRACT_B],
      [authorships |-> <<[raw_affiliation_strings |-> <<AFFILIATION_F>>]>>],
      [abstract_inverted_index |-> ABSTRACT_B,
       authorships |-> <<[raw_affiliation_strings |-> <<AFFILIATION_F, <<"G", "\n">>>>],
                         [raw_affiliation_strings |-> <<<<"G">>>>]>>],
      [abstract_inverted_index |-> ABSTRACT_B, authorships |-> <<EmptyObject>>] }

Answers(documents) == {NoAnswer, NotOk} \cup {Ok(d) : d \in documents}

LookupDois == {NA, D1, <<"1", "0", ".", "1", "/", "x">>}

LookupRows ==
    [DOI : LookupDois,
     Abstract : {NA, ABSTRACT_A},
     Usage : {NA, CC_BY_4, CC0, COPYRIGHTED},
     Publisher : {NA, PUBLISHER_P},
     Affiliations : {NA, AFFILIATION_F}]

LookupInputs ==
    [api : {"crossref"}, row : LookupRows, answer : Answers(CrossrefDocuments)]
    \cup [api : {"unpaywall"}, row : LookupRows, answer : Answers(UnpaywallDocuments)]
    \cup [api : {"openalex"}, row : LookupRows, answer : Answers(OpenAlexDocuments)]
    \cup { [api |-> "crossref",
            row |-> [DOI |-> d, Abstract |-> NA, Usage |-> NA, Publisher |-> NA, Affiliations |-> NA],
            answer |-> Ok([message |-> [license |-> l]])] : d \in LookupDois, l \in LicenseLists }

InitLookup ==
    /\ pc = "lookup_start"
    /\ arg \in LookupInputs
    /\ res = NA
    /\ res2 = NA
    /\ csv = NoCsv
    /\ dois_to_remove = {}
    /\ urls_to_remove = {}
    /\ doi_lists = NoLists
    /\ pdf_dir = {}
    /\ registry = NoRegistry
    /\ FramesEmpty

GetLicense ==
    /\ pc = "lookup_start"
    /\ arg.api = "crossref"
    /\ res' = get_license(arg.row.DOI, arg.answer)
    /\ pc' = "get_license_done"
    /\ UNCHANGED <<arg, res2, env_vars, df_vars>>

GetAccessRights ==
    /\ pc = "lookup_start"
    /\ arg.api = "unpaywall"
    /\ res' = get_access_rights(arg.row.DOI, arg.answer)
    /\ pc' = "get_access_rights_done"
    /\ UNCHANGED <<arg, res2, env_vars, df_vars>>

RetrieveAbstractOpenalex ==
    /\ pc = "lookup_start"
    /\ arg.api = "openalex"
    /\ res' = retrieve_abstract_openalex(arg.row, arg.answer)
    /\ pc' = "retrieve_abstract_openalex_done"
    /\ UNCHANGED <<arg, res2, env_vars, df_vars>>

RetrievePublisherCrossref ==
    /\ pc = "lookup_start"
    /\ arg.api = "crossref"
    /\ res' = retrieve_publisher_crossref(arg.row, arg.answer)
    /\ pc' = "retrieve_publisher_crossref_done"
    /\ UNCHANGED <<arg, res2, env_vars, df_vars>>

RetrieveAffiliationsOpenalex ==
    /\ pc = "lookup_start"
    /\ arg.api = "openalex"
    /\ res' = retrieve_affiliations_openalex(arg.row, arg.answer)
    /\ pc' = "retrieve_affiliations_openalex_done"
    /\ UNCHANGED <<arg, res2, env_vars, df_vars>>

FilterAbstracts ==
    /\ pc = "lookup_start"
    /\ arg.api = "crossref"
    /\ res' = filter_abstracts(arg.row, arg.answer)
    /\ pc' = "filter_abstracts_done"
    /\ UNCHANGED <<arg, res2, env_vars, df_vars>>

NextLookup ==
    \/ GetLicense
    \/ GetAccessRights
    \/ RetrieveAbstractOpenalex
    \/ RetrievePublisherCrossref
    \/ RetrieveAffiliationsOpenalex
    \/ FilterAbstracts

SpecLookup == InitLookup /\ [][NextLookup]_vars

---------------------------------------------------------------------------
(* Properties of the lookups *)

LookupDone ==
    pc \in {"get_license_done", "get_access_rights_done", "retrieve_abstract_openalex_done",
            "retrieve_publisher_crossref_done", "retrieve_affiliations_openalex_done",
            "filter_abstracts_done"}

\* C16: whatever the answer of the service (no answer, an HTTP error status,
\* a document without an expected key), none of get_license,
\* get_access_rights, retrieve_abstract_openalex, retrieve_publisher_crossref,
\* retrieve_affiliations_openalex and filter_abstracts raises, and on no
\* answer or an error status a lookup that was made gives an absent value.
C16_LookupsNeverFatal ==
    LookupDone =>
        /\ ~Raised(res)
        /\ arg.answer.status # "ok" =>
              \/ isna(res)
              \/ pc = "retrieve_abstract_openalex_done" /\ res = arg.row.Abstract
              \/ pc = "retrieve_publisher_crossref_done" /\ res = arg.row.Publisher
              \/ pc = "retrieve_affiliations_openalex_done" /\ res = arg.row.Affiliations
              \/ pc = "filter_abstracts_done" /\ res = arg.row.Abstract

\* the identifiers get_license gives to creativecommons.org licenses
IsCreativeCommons(rights) == ~isna(rights) /\ (StartsWith(rights, CC_DASH) \/ rights = CC0)

\* C17: filter_abstracts returns the Abstract of a row unchanged when the
\* row has an Abstract and its Usage rights is a Creative Commons identifier
\* (CC-<type>-<version>, or CC0-1.0), whatever Crossref answers.
C17_CreativeCommonsKept ==
    (pc = "filter_abstracts_done" /\ ~isna(arg.row.Abstract) /\ IsCreativeCommons(arg.row.Usage))
        => res = arg.row.Abstract

PreferenceOrder == <<"am", "vor", "tdm", "unspecified">>

\* the reported licenses cut down to the last entry of the preferred version
PreferredOnly(licenses) ==
    IF \A k \in 1..Len(PreferenceOrder) : ~VersionReported(licenses, PreferenceOrder[k]) THEN <<>>
    ELSE LET k == CHOOSE n \in 1..Len(PreferenceOrder) :
                      /\ VersionReported(licenses, PreferenceOrder[n])
                      /\ \A m \in 1..(n - 1) : ~VersionReported(licenses, PreferenceOrder[m])
             i == CHOOSE n \in 1..Len(licenses) :
                      /\ licenses[n].content_version = PreferenceOrder[k]
                      /\ \A m \in (n + 1)..Len(licenses) : licenses[m].content_version # PreferenceOrder[k]
         IN  <<licenses[i]>>

ReportsLicenses(answer) ==
    /\ answer.status = "ok"
    /\ HasKey(answer.json, "message")
    /\ HasKey(answer.json.message, "license")

\* C20: get_license gives the license of the content version am if one is
\* reported, else vor, else tdm, else unspecified, and an absent value when
\* none of these is reported; its result is absent, a Creative Commons
\* identifier or "Copyrighted; all rights reserved", and never contains http.
C20_LicensePreference ==
    (pc = "get_license_done" /\ ReportsLicenses(arg.answer)) =>
        LET licenses == arg.answer.json.message.license
        IN  /\ res = get_license(arg.row.DOI, Ok([message |-> [license |-> PreferredOnly(licenses)]]))
            /\ PreferredOnly(licenses) = <<>> => isna(res)
            /\ isna(res) \/ IsCreativeCommons(res) \/ res = COPYRIGHTED
            /\ ~Contains(res, HTTP)

---------------------------------------------------------------------------
(* Runs that exercise the enrichment: two rows with the DOIs 10.1/x and    *)
(* 10.1/xy.  The cells of the first row and the answers of the services    *)
(* for its DOI vary; the second row has an issue date and nothing else,    *)
(* and its DOI is known to no service.                                     *)

EnrichCells ==
    [PubDate : {<<>>, <<"2", "0", "1", "5">>, <<"2", "0", "1", "5", "-", "1", "3">>},
     Online : {<<>>, <<"2", "0", "1", "4", "-", "0", "6">>},
     Abstract : {<<>>, ABSTRACT_A},
     Usage : {<<>>, CC_BY_4, CC0, COPYRIGHTED, <<"A", "t", "t", "r", "i", "b", "u", "t", "i", "o", "n", " ", "4", ".", "0">>},
     Access : {<<>>, <<"O", "p", "e", "n", " ", "a", "c", "c", "e", "s", "s">>}]

SecondRowCells ==
    [PubDate |-> <<"2", "0", "1", "2">>, Online |-> <<>>, Abstract |-> <<>>, Usage |-> <<>>, Access |-> <<>>]

EnrichCsv(cells) ==
    [s \in Sources |->
        IF s = PopulatedSource
        THEN <<CsvRow(<<"1", "0", ".", "1", "/", "x">>, <<"T">>, LinkCell(1), cells),
               CsvRow(<<"1", "0", ".", "1", "/", "x", "y">>, <<"t">>, LinkCell(2), SecondRowCells)>>
        ELSE <<>>]

CC_BY_URL == <<"h", "t", "t", "p", ":", "/", "/", "c", "r", "e", "a", "t", "i", "v", "e", "c", "o", "m", "m", "o", "n", "s", ".", "o", "r", "g", "/", "l", "i", "c", "e", "n", "s", "e", "s", "/", "b", "y", "/", "4", ".", "0", "/">>
ELSEVIER_TDM == <<"h", "t", "t", "p", "s", ":", "/", "/", "w", "w", "w", ".", "e", "l", "s", "e", "v", "i", "e", "r", ".", "c", "o", "m", "/", "t", "d", "m", "/", "u", "s", "e", "r", "l", "i", "c", "e", "n", "s", "e", "/", "1", ".", "0", "/">>

CrossrefAnswers ==
    { NoAnswer, NotOk, Ok(EmptyObject),
      Ok([message |-> [abstract |-> ABSTRACT_B]]),
      Ok([message |-> [license |-> <<[content_version |-> "vor", URL |-> CC_BY_URL]>>]]),
      Ok([message |-> [license |-> <<[content_version |-> "tdm", URL |-> ELSEVIER_TDM]>>,
                       abstract |-> ABSTRACT_B]]) }

UnpaywallAnswers ==
    { NoAnswer, NotOk, Ok(EmptyObject), Ok([is_oa |-> FALSE]), Ok([is_oa |-> TRUE, oa_status |-> "gold"]) }

OpenAlexAnswers ==
    { NoAnswer, NotOk, Ok(EmptyObject),
      Ok([abstract_inverted_index |-> NA]),
      Ok([abstract_inverted_index |-> ABSTRACT_B]) }

\* the services know the first DOI only
Registries ==
    { [api \in Services |->
          [d \in {D1} |-> CASE api = "crossref" -> c
                            [] api = "unpaywall" -> u
                            [] api = "openalex" -> o]] :
        c \in CrossrefAnswers, u \in UnpaywallAnswers, o \in OpenAlexAnswers }

InitEnrich ==
    /\ pc = "merge"
    /\ FnIdle
    /\ csv \in {EnrichCsv(cells) : cells \in EnrichCells}
    /\ dois_to_remove = {}
    /\ urls_to_remove = {}
    /\ doi_lists = DoiLists
    /\ pdf_dir = PdfDir
    /\ registry \in Registries
    /\ FramesEmpty

SpecEnrich == InitEnrich /\ [][Next]_vars

---------------------------------------------------------------------------
(* Properties of the enrichment *)

\* the row as the sources gave it, before the enrichment
RepositoryRow(r) == CHOOSE q \in Rows(df_title_pass) : q.row = r.row

\* none of the lookups for the row raises
LookupsAnswered(r) ==
    /\ ~Raised(get_license(r.DOI, Answer(registry, "crossref", r.DOI)))
    /\ ~Raised(get_access_rights(r.DOI, Answer(registry, "unpaywall", r.DOI)))
    /\ ~Raised(retrieve_abstract_openalex(r, Answer(registry, "openalex", r.DOI)))

\* the rows that reach the enrichment
ToEnrich == {r \in SurvivedExclusion : Canonical(r.DOI)}

\* C15: when the publication date of a row cannot be resolved (no issue date
\* and no online date, or a date that does not parse), the run goes on: every
\* other row is in the final dataset when the script ends.
C15_FailuresIsolated ==
    (pc \in {"done", "aborted"} /\ \A r \in ToEnrich : LookupsAnswered(r)) =>
        \A r \in ToEnrich :
            ~Raised(get_publication_date(r.PubDate, r.Online)) => r.row \in RowIds(out["output"])

\* Crossref has an abstract on file for the DOI
RegistryHasAbstract(doi) ==
    LET answer == Answer(registry, "crossref", doi)
    IN  /\ answer.status = "ok"
        /\ HasKey(answer.json, "message")
        /\ HasKey(answer.json.message, "abstract")

RedistributionSafe(r) ==
    ~isna(r.Abstract) => (~isna(r.Usage) /\ Contains(r.Usage, CC_DASH)) \/ RegistryHasAbstract(r.DOI)

\* C18: the abstract filter comes after the abstracts of the sources and of
\* OpenAlex and after Usage rights has its final value, and nothing writes
\* Abstract or Usage rights after it: every row of the final dataset that has
\* an Abstract has a Usage rights value with CC- in it or an abstract on file
\* at Crossref.
C18_RedistributionSafe ==
    /\ pc \in {"write", "done"} => \A r \in Rows(df_final) : RedistributionSafe(r)
    /\ pc = "done" =>
          /\ \A f \in OutputFiles \ {"missing-dois"} : \A r \in Rows(out[f]) : RedistributionSafe(r)
          /\ \A r \in Rows(out["output"]) : \E q \in Rows(df_final) :
                q.row = r.row /\ q.Abstract = r.Abstract /\ q.Usage = r.Usage

\* OpenAlex supplies an abstract for a row that had none; the row has no
\* Usage rights and Crossref no abstract; the final dataset has the row
\* without Abstract
C18_Witness ==
    /\ pc = "done"
    /\ \E r \in Rows(out["output"]) :
          /\ isna(RepositoryRow(r).Abstract)
          /\ retrieve_abstract_openalex(RepositoryRow(r), Answer(registry, "openalex", r.DOI)) = ABSTRACT_B
          /\ isna(r.Usage)
          /\ ~RegistryHasAbstract(r.DOI)
          /\ isna(r.Abstract)

LicenseLookedUp(r) == get_license(r.DOI, Answer(registry, "crossref", r.DOI))
AccessLookedUp(r) == get_access_rights(r.DOI, Answer(registry, "unpaywall", r.DOI))

\* C19: after the enrichment the Usage rights of a row is the result of the
\* license lookup when that is not absent and else the repository's value,
\* and its Access rights is the result of the open-access lookup when that is
\* not absent and else the repository's value, both with the vocabulary
\* rewrites applied; a value of the repository is never replaced by absent.
C19_ExternalPrecedence ==
    pc \in {"write", "done"} =>
        \A r \in Rows(df_final) :
            LET repository == RepositoryRow(r)
            IN  /\ r.Usage = AlignUsage(IF ~isna(LicenseLookedUp(r)) THEN LicenseLookedUp(r)
                                        ELSE repository.Usage)
                /\ r.Access = AlignAccess(IF ~isna(AccessLookedUp(r)) THEN AccessLookedUp(r)
                                          ELSE repository.Access)
                /\ ~isna(repository.Usage) => ~isna(r.Usage)
                /\ ~isna(repository.Access) => ~isna(r.Access)

\* Crossref's license replaces the license of the repository, and with no
\* answer from Unpaywall the access rights of the repository stay
C19_Witness ==
    /\ pc = "done"
    /\ \E r \in Rows(out["output"]) :
          /\ RepositoryRow(r).Usage = COPYRIGHTED
          /\ LicenseLookedUp(r) = CC_BY_4
          /\ r.Usage = CC_BY_4
          /\ isna(AccessLookedUp(r))
          /\ ~isna(RepositoryRow(r).Access)
          /\ r.Access = OPEN_ACCESS

---------------------------------------------------------------------------
(* util.py: deduplicate_subjects, and clean_string applied twice *)

SEPARATOR == <<";", " ">>

\* s.split(sep) for a separator of any length: the matches are taken from the
\* left and do not overlap
RECURSIVE SplitStr(_, _)
SplitStr(s, sep) ==
    IF ~Contains(s, sep) THEN <<s>>
    ELSE LET i == CHOOSE k \in 1..Len(s) :
                      /\ SubSeq(s, k, k + Len(sep) - 1) = sep
                      /\ \A j \in 1..(k - 1) : SubSeq(s, j, j + Len(sep) - 1) # sep
         IN  <<SubSeq(s, 1, i - 1)>> \o SplitStr(Drop(s, i + Len(sep) - 1), sep)

\* a list without the entries that occur later in it
RECURSIVE UniqueLast(_)
UniqueLast(list) ==
    IF list = <<>> THEN <<>>
    ELSE IF \E i \in 2..Len(list) : list[i] = Head(list) THEN UniqueLast(Tail(list))
    ELSE <<Head(list)>> \o UniqueLast(Tail(list))

\* deduplicate_subjects keeping the last of the equal entries
deduplicate_subjects_last(subjects) ==
    IF isna(subjects) THEN NA
    ELSE Join(UniqueLast(SplitStr(subjects, SEPARATOR)), SEPARATOR)

\* util.deduplicate_subjects: x is kept when it is not in seen, and is then
\* added to seen
deduplicate_subjects(subjects) ==
    IF isna(subjects) THEN NA
    ELSE Join(Unique(SplitStr(subjects, SEPARATOR)), SEPARATOR)

---------------------------------------------------------------------------
(* merge_source_csvs.py, lines 333-359: the Subjects column of one row *)

ClimateChangePhrases == {<<"c", "a", "m", "b", "i", "o", " ", "c", "l", "i", "m", "a", "t", "i", "c", "o">>, <<"c", "a", "m", "b", "i", "o", " ", "c", "l", "i", "m", "á", "t", "i", "c", "o">>, <<"c", "l", "i", "m", "a", "t", "e", " ", "c", "h", "a", "n", "g", "e">>}

\* the phrase of the alternation that s starts with, <<>> when there is none
LeadingPhrase(s) ==
    IF \E p \in ClimateChangePhrases : StartsWith(s, p)
    THEN CHOOSE p \in ClimateChangePhrases : StartsWith(s, p)
    ELSE <<>>

\* $ matches at the end of the string and before a line break that ends it
AtEnd(s) == s = <<>> \/ s = <<"\n">>

\* the length of the match of ;?\s? at the start of s
OptionalSeparatorLength(s) ==
    LET semicolon == IF s # <<>> /\ s[1] = ";" THEN 1 ELSE 0
    IN  IF Len(s) > semicolon /\ s[semicolon + 1] \in Whitespace THEN semicolon + 1 ELSE semicolon

\* the length of the match of ;\s?$ at the start of s, 0 when there is none
TrailingSeparatorLength(s) ==
    IF s = <<>> \/ s[1] # ";" THEN 0
    ELSE IF Len(s) >= 2 /\ s[2] \in Whitespace /\ AtEnd(Drop(s, 2)) THEN 2
    ELSE IF AtEnd(Drop(s, 1)) THEN 1
    ELSE 0

\* .str.replace(r";\s?$", "", regex=True)
RECURSIVE NoTrailingSeparator(_)
NoTrailingSeparator(s) ==
    IF s = <<>> THEN s
    ELSE IF TrailingSeparatorLength(s) > 0 THEN NoTrailingSeparator(Drop(s, TrailingSeparatorLength(s)))
    ELSE <<Head(s)>> \o NoTrailingSeparator(Tail(s))

\* .str.replace(r"^(cambio climatico|cambio climático|climate change);?\s?", "", regex=True)
NoLeadingClimateChange(s) ==
    IF LeadingPhrase(s) = <<>> THEN s
    ELSE LET rest == Drop(s, Len(LeadingPhrase(s)))
         IN  Drop(rest, OptionalSeparatorLength(rest))

\* the length of the match of ;\s?(...);\s? at the start of s, 0 when there is none
MiddleMatchLength(s) ==
    IF s = <<>> \/ s[1] # ";" THEN 0
    ELSE LET skip == IF Len(s) >= 2 /\ s[2] \in Whitespace THEN 2 ELSE 1
             phrase == LeadingPhrase(Drop(s, skip))
             rest == Drop(s, skip + Len(phrase))
         IN  IF phrase = <<>> \/ rest = <<>> \/ rest[1] # ";" THEN 0
             ELSE skip + Len(phrase) + OptionalSeparatorLength(rest)

\* .str.replace(r";\s?(cambio climatico|cambio climático|climate change);\s?", "; ", regex=True)
RECURSIVE NoMiddleClimateChange(_)
NoMiddleClimateChange(s) ==
    IF s = <<>> THEN s
    ELSE IF MiddleMatchLength(s) > 0 THEN SEPARATOR \o NoMiddleClimateChange(Drop(s, MiddleMatchLength(s)))
    ELSE <<Head(s)>> \o NoMiddleClimateChange(Tail(s))

\* .str.replace(r"(cambio climatico|cambio climático|climate change)$", "", regex=True)
RECURSIVE NoFinalClimateChange(_)
NoFinalClimateChange(s) ==
    IF s = <<>> THEN s
    ELSE IF LeadingPhrase(s) # <<>> /\ AtEnd(Drop(s, Len(LeadingPhrase(s))))
         THEN Drop(s, Len(LeadingPhrase(s)))
    ELSE <<Head(s)>> \o NoFinalClimateChange(Tail(s))

\* lines 338-359 for one value of the column; the .str methods leave a
\* missing value missing
normalize_subjects(subjects) ==
    IF isna(subjects) THEN NA
    ELSE deduplicate_subjects(
             NoFinalClimateChange(NoMiddleClimateChange(NoLeadingClimateChange(
                 Lower(NoTrailingSeparator(subjects))))))

---------------------------------------------------------------------------
(* merge_source_csvs.py, lines 247-261: the Authors of an IRRI row *)

\* .str.replace(r";[^ ]", "; ", regex=True): a match is a semicolon and the
\* character after it
RECURSIVE AddSpacesAfterSemicolons(_)
AddSpacesAfterSemicolons(s) ==
    IF s = <<>> THEN s
    ELSE IF Len(s) >= 2 /\ s[1] = ";" /\ s[2] # " "
         THEN SEPARATOR \o AddSpacesAfterSemicolons(Drop(s, 2))
    ELSE <<Head(s)>> \o AddSpacesAfterSemicolons(Tail(s))

---------------------------------------------------------------------------
(* Runs of deduplicate_subjects, clean_string and the Subjects             *)
(* normalisation on one value, the first two applied once and then again   *)
(* to their own result                                                      *)

MaxText == 4

TextPieces ==
    {<<"a">>, <<"A">>, <<";", " ">>, <<";">>, <<" ">>, <<"\n">>, <<"\r">>,
     <<"c", "l", "i", "m", "a", "t", "e", " ", "c", "h", "a", "n", "g", "e">>, <<"C", "l", "i", "m", "a", "t", "e", " ", "C", "h", "a", "n", "g", "e">>}

RECURSIVE Flatten(_)
Flatten(list) == IF list = <<>> THEN <<>> ELSE Head(list) \o Flatten(Tail(list))

EXAMPLE_SUBJECTS == <<"a", ";", " ", "b", ";", " ", "a", ";", " ", "c">>
EXAMPLE_AUTHORS == <<"S", "m", "i", "t", "h", ",", " ", "J", ";", "J", "o", "n", "e", "s", ",", " ", "K">>

TextInputs ==
    {NA, EXAMPLE_SUBJECTS, EXAMPLE_AUTHORS} \cup {Flatten(pieces) : pieces \in SeqsUpTo(TextPieces, MaxText)}

InitText ==
    /\ pc = "text_start"
    /\ arg \in TextInputs
    /\ res = NA
    /\ res2 = NA
    /\ csv = NoCsv
    /\ dois_to_remove = {}
    /\ urls_to_remove = {}
    /\ doi_lists = NoLists
    /\ pdf_dir = {}
    /\ registry = NoRegistry
    /\ FramesEmpty

\* df["Subjects"].apply(util.deduplicate_subjects), for one value
DeduplicateSubjects ==
    /\ pc = "text_start"
    /\ res' = deduplicate_subjects(arg)
    /\ res2' = deduplicate_subjects(deduplicate_subjects(arg))
    /\ pc' = "subjects_done"
    /\ UNCHANGED <<arg, env_vars, df_vars>>

\* util.clean_string(string); the function has no guard for a missing value
CleanString ==
    /\ pc = "text_start"
    /\ ~isna(arg)
    /\ res' = clean_string(arg)
    /\ res2' = clean_string(clean_string(arg))
    /\ pc' = "clean_done"
    /\ UNCHANGED <<arg, env_vars, df_vars>>

\* lines 338-359 for the Subjects of one row
NormalizeSubjects ==
    /\ pc = "text_start"
    /\ res' = normalize_subjects(arg)
    /\ pc' = "keywords_done"
    /\ UNCHANGED <<arg, res2, env_vars, df_vars>>

\* line 258 for the Authors of one IRRI row
IrriAuthors ==
    /\ pc = "text_start"
    /\ res' = IF isna(arg) THEN NA ELSE AddSpacesAfterSemicolons(arg)
    /\ pc' = "authors_done"
    /\ UNCHANGED <<arg, res2, env_vars, df_vars>>

NextText == DeduplicateSubjects \/ CleanString \/ NormalizeSubjects \/ IrriAuthors

SpecText == InitText /\ [][NextText]_vars

---------------------------------------------------------------------------
(* Properties of deduplicate_subjects and clean_string *)

\* the positions of the entries that equal no earlier entry
FirstOccurrences(entries) ==
    {i \in 1..Len(entries) : \A j \in 1..(i - 1) : entries[j] # entries[i]}

\* kept is entries restricted to the positions of first occurrences, in order
IsFirstOccurrenceList(kept, entries) ==
    /\ Len(kept) = Cardinality(FirstOccurrences(entries))
    /\ \A i \in FirstOccurrences(entries) :
          kept[Cardinality({j \in FirstOccurrences(entries) : j <= i})] = entries[i]

\* C23: for a string, the result of deduplicate_subjects is the "; "-join of
\* the "; "-separated entries of the input without the entries that equal an
\* earlier entry, first occurrences in their order; a missing value gives a
\* missing value; applying the function to its result changes nothing.
C23_DeduplicateSubjects ==
    pc = "subjects_done" =>
        /\ isna(arg) => isna(res)
        /\ ~isna(arg) =>
              \E kept \in {SplitStr(res, SEPARATOR)} :
                  /\ IsFirstOccurrenceList(kept, SplitStr(arg, SEPARATOR))
                  /\ res = Join(kept, SEPARATOR)
        /\ arg = EXAMPLE_SUBJECTS => res = <<"a", ";", " ", "b", ";", " ", "c">>
        /\ res2 = res

\* "a; b; a; c" gives "a; b; c"
C23_Witness ==
    /\ pc = "subjects_done"
    /\ arg = EXAMPLE_SUBJECTS
    /\ res = <<"a", ";", " ", "b", ";", " ", "c">>

\* C24: clean_string applied to its own result gives that result again; the
\* result has no CR and no LF and no whitespace at either end.
C24_CleanStringIdempotent ==
    pc = "clean_done" =>
        /\ res2 = res
        /\ \A i \in 1..Len(res) : res[i] \notin {"\n", "\r"}
        /\ res = <<>> \/ (res[1] \notin Whitespace /\ res[Len(res)] \notin Whitespace)

\* the "; "-separated entries are there, none of them empty, no two of them
\* the same when letter case is ignored
IsCleanList(s) ==
    LET entries == SplitStr(s, SEPARATOR)
    IN  /\ \A i \in 1..Len(entries) : entries[i] # <<>>
        /\ \A i, j \in 1..Len(entries) : i < j => Lower(entries[i]) # Lower(entries[j])

\* C22: the Keywords (Subjects) of a row of the final dataset, when present,
\* split on "; " into entries none of which is empty and no two of which are
\* the same when letter case is ignored; here for every Subjects value of the
\* sources that is itself such a list.
C22_ListFields ==
    (pc = "keywords_done" /\ ~isna(arg) /\ IsCleanList(arg)) =>
        (isna(res) \/ res = <<>> \/ IsCleanList(res))

\* the string without its spaces
RECURSIVE NoSpaces(_)
NoSpaces(s) ==
    IF s = <<>> THEN s
    ELSE IF Head(s) = " " THEN NoSpaces(Tail(s))
    ELSE <<Head(s)>> \o NoSpaces(Tail(s))

\* C30: after the step that adds spaces after semicolons, every semicolon of
\* the Authors of an IRRI row that has a character after it has a space after
\* it, and the value without its spaces is what it was before the step.
C30_IrriAuthors ==
    (pc = "authors_done" /\ ~isna(arg)) =>
        /\ \A i \in 1..(Len(res) - 1) : res[i] = ";" => res[i + 1] = " "
        /\ NoSpaces(res) = NoSpaces(arg)

---------------------------------------------------------------------------
(* merge_source_csvs.py, lines 204-217: the Author affiliations of a CIFOR *)
(* row, and the lookup of missing affiliations for it                      *)

MISSING_DATA == <<"M", "I", "S", "S", "I", "N", "G", " ", "D", "A", "T", "A">>

\* the length of the match of (;\s)? followed by MISSING DATA and (;\s)? at
\* the start of s, 0 when there is none
SeparatorLength(s) == IF Len(s) >= 2 /\ s[1] = ";" /\ s[2] \in Whitespace THEN 2 ELSE 0

MissingDataLength(s) ==
    LET before == SeparatorLength(s)
    IN  IF ~StartsWith(Drop(s, before), MISSING_DATA) THEN 0
        ELSE before + Len(MISSING_DATA) + SeparatorLength(Drop(s, before + Len(MISSING_DATA)))

\* .str.replace(r"((;\s)?MISSING DATA(;\s)?)", "", regex=True)
RECURSIVE ReplaceMissingData(_)
ReplaceMissingData(s) ==
    IF s = <<>> THEN s
    ELSE IF MissingDataLength(s) > 0 THEN ReplaceMissingData(Drop(s, MissingDataLength(s)))
    ELSE <<Head(s)>> \o ReplaceMissingData(Tail(s))

\* .fillna("MISSING DATA")
fillna(value) == IF isna(value) THEN MISSING_DATA ELSE value

\* lines 205-217: cg.contributor.affiliation and cg.contributor.center of a
\* row in one value
CiforAffiliations(affiliation, center) ==
    ReplaceMissingData(fillna(affiliation) \o SEPARATOR \o fillna(center))

AFFILIATION_G == <<"G">>

CiforCells == {NA, AFFILIATION_F, AFFILIATION_G, AFFILIATION_F \o SEPARATOR \o AFFILIATION_G}

CiforInputs ==
    [affiliation : CiforCells, center : CiforCells, answer : Answers(OpenAlexDocuments)]

InitCifor ==
    /\ pc = "cifor_start"
    /\ arg \in CiforInputs
    /\ res = NA
    /\ res2 = NA
    /\ csv = NoCsv
    /\ dois_to_remove = {}
    /\ urls_to_remove = {}
    /\ doi_lists = NoLists
    /\ pdf_dir = {}
    /\ registry = NoRegistry
    /\ FramesEmpty

\* lines 204-217
ConcatenateAffiliations ==
    /\ pc = "cifor_start"
    /\ res' = CiforAffiliations(arg.affiliation, arg.center)
    /\ pc' = "cifor_concatenated"
    /\ UNCHANGED <<arg, res2, env_vars, df_vars>>

\* lines 504-506, for the row
RetrieveMissingAffiliations ==
    /\ pc = "cifor_concatenated"
    /\ res2' = retrieve_affiliations_openalex(
                   [DOI |-> D1, Abstract |-> NA, Usage |-> NA, Publisher |-> NA, Affiliations |-> res],
                   arg.answer)
    /\ pc' = "cifor_retrieved"
    /\ UNCHANGED <<arg, res, env_vars, df_vars>>

NextCifor == ConcatenateAffiliations \/ RetrieveMissingAffiliations

SpecCifor == InitCifor /\ [][NextCifor]_vars

---------------------------------------------------------------------------
(* Properties of the lookup of missing affiliations *)

\* the field holds no data: it is missing or the empty string
HoldsNoData(value) == isna(value) \/ value = <<>>

\* what the registry has for the DOI of the row
RegistryAffiliations ==
    retrieve_affiliations_openalex(
        [DOI |-> D1, Abstract |-> NA, Usage |-> NA, Publisher |-> NA, Affiliations |-> NA],
        arg.answer)

\* C21: for a row whose Author affiliations holds no data when it enters the
\* enrichment, missing or the empty string (a CIFOR row without
\* cg.contributor.affiliation and without cg.contributor.center), the external
\* works registry is asked: when the registry has affiliations for the DOI,
\* the row gets them.
C21_MissingAffiliationsRetrieved ==
    (/\ pc = "cifor_retrieved"
     /\ HoldsNoData(res)
     /\ ~Raised(RegistryAffiliations) /\ ~HoldsNoData(RegistryAffiliations)) =>
        res2 = RegistryAffiliations

---------------------------------------------------------------------------
(* harvest_cimmyt.py, lines 80-210: the row written for one item.  The      *)
(* metadata of an item is a function from the names of the fields it has   *)
(* to their values; of the columns the model keeps Title, Abstract, DOI,   *)
(* Publisher and Language.                                                 *)

\* item["metadata"][field][0]["value"]
FirstValue(metadata, field) ==
    IF field \in DOMAIN metadata THEN metadata[field][1].value ELSE KeyError

\* try: the first candidate; except KeyError: the next; the last except gives ""
RECURSIVE FallbackChain(_, _)
FallbackChain(metadata, candidates) ==
    IF candidates = <<>> THEN <<>>
    ELSE IF Raised(FirstValue(metadata, Head(candidates)))
         THEN FallbackChain(metadata, Tail(candidates))
    ELSE FirstValue(metadata, Head(candidates))

AbstractCandidates == <<"dc.description", "dc.description.abstract", "dcterms.description">>
PublisherCandidates == <<"dc.publisher", "dcterms.publisher">>
LanguageCandidates == <<"dc.language", "dcterms.language">>

\* the row of the item, or the exception that line 82 raises
CimmytRow(metadata) ==
    IF Raised(FirstValue(metadata, "dc.title")) THEN KeyError
    ELSE [Title |-> FirstValue(metadata, "dc.title"),
          Abstract |-> FallbackChain(metadata, AbstractCandidates),
          DOI |-> FallbackChain(metadata, <<"dc.identifier.doi">>),
          Publisher |-> FallbackChain(metadata, PublisherCandidates),
          Language |-> FallbackChain(metadata, LanguageCandidates)]

---------------------------------------------------------------------------
(* Runs of the CIMMYT harvester on one item *)

CimmytFields ==
    <<"dc.title", "dc.identifier.doi">> \o AbstractCandidates \o PublisherCandidates \o LanguageCandidates

\* the values a field can have: one that names the field, and for the
\* candidates of Abstract and Publisher also the empty string
FieldValues(field) ==
    IF field \in {"dc.title", "dc.identifier.doi", "dc.language", "dcterms.language"}
    THEN {<<field>>}
    ELSE {<<>>, <<field>>}

\* the metadata with some of the fields, each with one of its values
RECURSIVE MetadataOver(_)
MetadataOver(fields) ==
    IF fields = <<>> THEN {EmptyObject}
    ELSE LET rest == MetadataOver(Tail(fields))
         IN  rest \cup { (Head(fields) :> <<[value |-> v]>>) @@ m :
                             m \in rest, v \in FieldValues(Head(fields)) }

CimmytMetadata == MetadataOver(CimmytFields)

InitCimmyt ==
    /\ pc = "cimmyt_start"
    /\ arg \in CimmytMetadata
    /\ res = NA
    /\ res2 = NA
    /\ csv = NoCsv
    /\ dois_to_remove = {}
    /\ urls_to_remove = {}
    /\ doi_lists = NoLists
    /\ pdf_dir = {}
    /\ registry = NoRegistry
    /\ FramesEmpty

\* one turn of the loop of line 80
HarvestCimmyt ==
    /\ pc = "cimmyt_start"
    /\ res' = CimmytRow(arg)
    /\ pc' = "cimmyt_done"
    /\ UNCHANGED <<arg, res2, env_vars, df_vars>>

NextCimmyt == HarvestCimmyt

SpecCimmyt == InitCimmyt /\ [][NextCimmyt]_vars

---------------------------------------------------------------------------
(* Properties of the CIMMYT harvester *)

\* the candidate is present with a value that is not empty
HasValue(metadata, field) == field \in DOMAIN metadata /\ metadata[field][1].value # <<>>

\* the value of the first candidate that is present with a non-empty value,
\* the empty string when there is none
RECURSIVE FirstNonEmpty(_, _)
FirstNonEmpty(metadata, candidates) ==
    IF candidates = <<>> THEN <<>>
    ELSE IF HasValue(metadata, Head(candidates)) THEN metadata[Head(candidates)][1].value
    ELSE FirstNonEmpty(metadata, Tail(candidates))

\* C25: the Abstract, the Publisher and the Language of the row of an item
\* are the value of the first candidate, in the order of the chain, that is
\* present with a non-empty value, and the empty string when no candidate has
\* one.
C25_FallbackChain ==
    (pc = "cimmyt_done" /\ ~Raised(res)) =>
        /\ res.Abstract = FirstNonEmpty(arg, AbstractCandidates)
        /\ res.Publisher = FirstNonEmpty(arg, PublisherCandidates)
        /\ res.Language = FirstNonEmpty(arg, LanguageCandidates)

\* C26: a row is written for every item, and a column whose field the item
\* does not have is empty in it, Title too.
C26_MissingFieldNoError ==
    pc = "cimmyt_done" =>
        /\ ~Raised(res)
        /\ "dc.title" \notin DOMAIN arg => res.Title = <<>>
        /\ "dc.identifier.doi" \notin DOMAIN arg => res.DOI = <<>>
        /\ (\A i \in 1..Len(AbstractCandidates) : AbstractCandidates[i] \notin DOMAIN arg)
               => res.Abstract = <<>>
        /\ (\A i \in 1..Len(PublisherCandidates) : PublisherCandidates[i] \notin DOMAIN arg)
               => res.Publisher = <<>>
        /\ (\A i \in 1..Len(LanguageCandidates) : LanguageCandidates[i] \notin DOMAIN arg)
               => res.Language = <<>>

---------------------------------------------------------------------------
(* icrisat_json_to_csv.py: the selection of the records of the export.  A   *)
(* record is a function from the keys it has to their values; of export_row *)
(* the model keeps the Title of the row and what the function raises.       *)

CLIMATE_CHANGE == <<"c", "l", "i", "m", "a", "t", "e", " ", "c", "h", "a", "n", "g", "e">>
S2_8 == <<"s", "2", ".", "8">>

\* what export_row(row) raises: row["subjects"] of line 136 is read outside a
\* try, and authors is None for a record without creators, which "; ".join
\* rejects
ExportRowRaises(row) ==
    IF ~HasKey(row, "subjects") THEN "KeyError"
    ELSE IF ~HasKey(row, "creators") THEN "TypeError"
    ELSE "nothing"

\* the row that export_row(row) writes
export_row(row) ==
    [Title |-> IF HasKey(row, "title") THEN clean_string(row.title) ELSE <<>>]

\* the condition of the check of one key, lines 195, 203, 210 and 217
Hit(row, key) ==
    IF key = "subjects" THEN \E i \in 1..Len(row.subjects) : row.subjects[i] = S2_8
    ELSE Contains(Lower(row[key]), CLIMATE_CHANGE)

SelectionKeys == <<"title", "subjects", "keywords", "abstract">>

\* lines 193-221 for one record: the checks in their order; a KeyError of the
\* check or of export_row is passed over and the next check follows, a row
\* that is written ends the turn
RECURSIVE SelectFrom(_, _)
SelectFrom(row, keys) ==
    IF keys = <<>> THEN [rows |-> <<>>, raised |-> "nothing"]
    ELSE IF ~HasKey(row, Head(keys)) THEN SelectFrom(row, Tail(keys))
    ELSE IF ~Hit(row, Head(keys)) THEN SelectFrom(row, Tail(keys))
    ELSE IF ExportRowRaises(row) = "KeyError" THEN SelectFrom(row, Tail(keys))
    ELSE IF ExportRowRaises(row) = "TypeError" THEN [rows |-> <<>>, raised |-> "TypeError"]
    ELSE [rows |-> <<export_row(row)>>, raised |-> "nothing"]

---------------------------------------------------------------------------
(* Runs of the ICRISAT converter on one record *)

RecordValues(key) ==
    CASE key = "title" -> {<<"x">>, <<"C", "l", "i", "m", "a", "t", "e", " ", "C", "h", "a", "n", "g", "e">>}
      [] key = "subjects" -> {<<>>, <<S2_8>>, <<<<"s", "1">>>>}
      [] key = "keywords" -> {<<"k">>, <<"c", "l", "i", "m", "a", "t", "e", " ", "c", "h", "a", "n", "g", "e", ";", " ", "k">>}
      [] key = "abstract" -> {<<"a">>, <<"o", "n", " ", "c", "l", "i", "m", "a", "t", "e", " ", "c", "h", "a", "n", "g", "e">>}
      [] key = "creators" -> {<<>>}

\* the records with some of the keys, each with one of its values
RECURSIVE RecordsOver(_)
RecordsOver(keys) ==
    IF keys = <<>> THEN {EmptyObject}
    ELSE LET rest == RecordsOver(Tail(keys))
         IN  rest \cup { (Head(keys) :> v) @@ r : r \in rest, v \in RecordValues(Head(keys)) }

IcrisatRecords == RecordsOver(SelectionKeys \o <<"creators">>)

InitIcrisat ==
    /\ pc = "icrisat_start"
    /\ arg \in IcrisatRecords
    /\ res = NA
    /\ res2 = NA
    /\ csv = NoCsv
    /\ dois_to_remove = {}
    /\ urls_to_remove = {}
    /\ doi_lists = NoLists
    /\ pdf_dir = {}
    /\ registry = NoRegistry
    /\ FramesEmpty

\* one turn of the loop of line 193
SelectRecord ==
    /\ pc = "icrisat_start"
    /\ res' = SelectFrom(arg, SelectionKeys)
    /\ pc' = "icrisat_done"
    /\ UNCHANGED <<arg, res2, env_vars, df_vars>>

NextIcrisat == SelectRecord

SpecIcrisat == InitIcrisat /\ [][NextIcrisat]_vars

---------------------------------------------------------------------------
(* Properties of the ICRISAT converter *)

\* "climate change" is in the title, the keywords or the abstract, or the
\* code s2.8 is in the subjects
Selected(row) ==
    \E i \in 1..Len(SelectionKeys) : HasKey(row, SelectionKeys[i]) /\ Hit(row, SelectionKeys[i])

\* C28: for a record of the export that has creators, one row is written
\* when "climate change" is in its title, keywords or abstract, whatever the
\* letter case, or s2.8 is in its subjects, and none otherwise; also when the
\* record lacks some of the keys title, subjects, keywords and abstract.
C28_IcrisatSelection ==
    (pc = "icrisat_done" /\ HasKey(arg, "creators")) =>
        /\ res.raised = "nothing"
        /\ Len(res.rows) = IF Selected(arg) THEN 1 ELSE 0

---------------------------------------------------------------------------
(* harvest_dspace.py: iterate_items *)

\* round(n, -3) of an int: to the nearest thousand, a half to the even one
RoundToThousands(n) ==
    LET below == (n \div 1000) * 1000
        rest == n % 1000
    IN  IF rest < 500 THEN below
        ELSE IF rest > 500 THEN below + 1000
        ELSE IF (n \div 1000) % 2 = 0 THEN below
        ELSE below + 1000

---------------------------------------------------------------------------
(* Runs of iterate_items: the Discover page reports a number of items of   *)
(* three digits or more; one page answers with a status that is not OK and *)
(* one page is empty, or none is                                           *)

MaxItems == 1500

ItemCounts == {n \in 100..MaxItems : n % 50 = 0 \/ n = MaxItems}

DspaceInputs == [items : ItemCounts, not_ok : {{}, {1}}, empty : {{}, {2}}]

InitDspace ==
    /\ pc = "dspace_start"
    /\ arg \in DspaceInputs
    /\ res = NA
    /\ res2 = NA
    /\ csv = NoCsv
    /\ dois_to_remove = {}
    /\ urls_to_remove = {}
    /\ doi_lists = NoLists
    /\ pdf_dir = {}
    /\ registry = NoRegistry
    /\ FramesEmpty

\* lines 171-183
EstimateItems ==
    /\ pc = "dspace_start"
    /\ res' = [num_items_estimate |-> RoundToThousands(arg.items), offset |-> 0, written |-> 0]
    /\ pc' = "dspace_iterate"
    /\ UNCHANGED <<arg, res2, env_vars, df_vars>>

\* lines 185-231: one turn of the loop; a page that is not OK or is empty, or
\* is past the last item, gives no row
RequestPage ==
    /\ pc = "dspace_iterate"
    /\ res.offset < res.num_items_estimate
    /\ res' = [res EXCEPT !.offset = @ + 1,
                          !.written = IF \/ res.offset \in arg.not_ok
                                         \/ res.offset \in arg.empty
                                         \/ res.offset >= arg.items
                                      THEN @ ELSE @ + 1]
    /\ UNCHANGED <<pc, arg, res2, env_vars, df_vars>>

\* the range of line 185 is used up
EndOfRange ==
    /\ pc = "dspace_iterate"
    /\ res.offset = res.num_items_estimate
    /\ pc' = "dspace_done"
    /\ UNCHANGED <<arg, res, res2, env_vars, df_vars>>

NextDspace == EstimateItems \/ RequestPage \/ EndOfRange

SpecDspace == InitDspace /\ [][NextDspace]_vars

---------------------------------------------------------------------------
(* Properties of iterate_items *)

\* C29: iterate_items requests the offsets 0, 1, 2, ... up to its estimate,
\* which is at least the number of items the Discover page reports, so every
\* offset below that number is requested; pages that are not OK or empty are
\* skipped and the iteration goes on.
C29_IterationCovers ==
    /\ pc \in {"dspace_iterate", "dspace_done"} => res.num_items_estimate >= arg.items
    /\ pc = "dspace_done" => res.offset >= arg.items

---------------------------------------------------------------------------
(* Rows lost to a duplicate that is discarded later *)

\* C27: when a row of the sources has a Title and a normalized DOI that
\* starts with https://doi.org/10., and neither its DOI nor its Repository
\* link is on an exclusion list, the final dataset has a row with the same
\* normalized DOI or with the same Title.
C27_NoRecordLost ==
    pc = "done" =>
        \A r \in Rows(df_normalized) :
            (~isna(r.Title) /\ Canonical(r.DOI) /\ NotExcluded(r)) =>
                \E q \in Rows(out["output"]) : q.DOI = r.DOI \/ q.Title = r.Title

=============================================================================
